---- MODULE Spec2Model ----
(***************************************************************************)
(* Payment-event reconciliation engine of onlypaws: the Stripe webhook     *)
(* (supabase/functions/stripe-webhook/index.ts), its signature verifier,   *)
(* status mapper and ledger upsert, together with the ledger store and the *)
(* payment provider it talks to.                                           *)
(*                                                                         *)
(* Strings that the code only compares are TLA+ strings.  Strings that the *)
(* code takes apart (the signature header, the raw body) are sequences of  *)
(* one-token strings.                                                      *)
(***************************************************************************)
EXTENDS Integers, Sequences, FiniteSets, TLC

VARIABLES
    ledger,        \* table creator_subscriptions: a set of rows
    nextId,        \* the table's row id sequence
    profiles,      \* table profiles: user id -> connected-account fields
    entitlements,  \* table entitlements: a set of rows
    stripeSubs,    \* the provider's subscriptions: id -> current state
    events,        \* raw bodies of the events the provider has emitted
    now,           \* Date.now(), in milliseconds
    req,           \* the webhook requests: arrival number -> request state
    lastWrite,     \* raw body of the request that last wrote the ledger
    call,          \* the last call of a pure helper: function, inputs, result
    observed,      \* user id -> the account flags a function last saw
    withdrawals,   \* table withdrawals: id -> row
    transfers      \* the transfers the provider has created

vars == <<ledger, nextId, profiles, entitlements, stripeSubs, events, now, req,
          lastWrite, call, observed, withdrawals, transfers>>

(***************************************************************************)
(* Bounds of the model.                                                    *)
(***************************************************************************)
NumReq == 2        \* webhook requests (deliveries) in one behaviour
MaxEvents == 2     \* events the provider emits in one behaviour
MaxTime == 1       \* clock ticks (seconds) in one behaviour
MaxParts == 3      \* comma-separated parts of a signature header

Procs == 1..NumReq

NULL == "<null>"   \* JavaScript null / undefined for a string-valued field
NoIso == <<>>      \* null in a timestamp column

(***************************************************************************)
(* String helpers.                                                         *)
(***************************************************************************)
\* String.prototype.startsWith
startsWith(s, prefix) ==
    /\ Len(s) >= Len(prefix)
    /\ SubSeq(s, 1, Len(prefix)) = prefix

\* String.prototype.slice(n)
slice(s, n) == SubSeq(s, n + 1, Len(s))

\* String.prototype.trim
RECURSIVE trim(_)
trim(s) ==
    IF s = <<>> THEN s
    ELSE IF Head(s) = " " THEN trim(Tail(s))
    ELSE IF s[Len(s)] = " " THEN trim(SubSeq(s, 1, Len(s) - 1))
    ELSE s

\* String.prototype.split(","): "" splits into one empty part
RECURSIVE splitComma(_)
splitComma(s) ==
    IF \A i \in 1..Len(s) : s[i] # "," THEN <<s>>
    ELSE LET i == CHOOSE k \in 1..Len(s) :
                      /\ s[k] = ","
                      /\ \A j \in 1..(k - 1) : s[j] # ","
         IN <<SubSeq(s, 1, i - 1)>> \o splitComma(SubSeq(s, i + 1, Len(s)))

(***************************************************************************)
(* Signature verification (stripe-webhook/index.ts 83-119).                *)
(***************************************************************************)
STRIPE_WEBHOOK_SECRET == "whsec_live"

parseStripeSigHeader(sig) ==
    LET parts == [i \in 1..Len(splitComma(sig)) |-> trim(splitComma(sig)[i])]
        isT(p) == startsWith(p, <<"t", "=">>)
        isV1(p) == startsWith(p, <<"v", "1", "=">>)
        ts == SelectSeq(parts, isT)
        vs == SelectSeq(parts, isV1)
    IN [t   |-> IF ts = <<>> THEN <<>> ELSE slice(ts[1], 2),
        v1s |-> [i \in 1..Len(vs) |-> slice(vs[i], 3)]]

\* out |= a.charCodeAt(i) ^ b.charCodeAt(i): out stays 0 exactly while every
\* position so far holds equal characters; acc stands for out === 0.
RECURSIVE xorFold(_, _, _, _)
xorFold(a, b, i, acc) ==
    IF i > Len(a) THEN acc
    ELSE xorFold(a, b, i + 1, acc /\ (a[i] = b[i]))

\* timingSafeEqual without its length test: the loop runs over a alone
timingSafeEqualNoLength(a, b) ==
    IF Len(a) > Len(b) THEN FALSE
    ELSE xorFold(a, SubSeq(b, 1, Len(a)), 1, TRUE)

timingSafeEqual(a, b) ==
    IF Len(a) # Len(b) THEN FALSE
    ELSE xorFold(a, b, 1, TRUE)

\* HMAC-SHA256 as an ideal keyed digest: two digests are equal exactly when
\* key and message are equal.  The digest is a string of its own tokens.
hmacSHA256Hex(secret, message) == <<"mac", secret>> \o message

verifyStripeSignature(rawBody, sigHeader, secret) ==
    LET parsed == parseStripeSigHeader(sigHeader)
        t == parsed.t
        v1s == parsed.v1s
    IN IF t = <<>> \/ v1s = <<>> THEN FALSE
       ELSE LET signedPayload == t \o <<".">> \o rawBody
                expected == hmacSHA256Hex(secret, signedPayload)
            IN \E i \in 1..Len(v1s) : timingSafeEqual(v1s[i], expected)

(***************************************************************************)
(* The event envelope on the wire.  A raw body is a sequence of tokens:    *)
(* the event type, then the fields of data.object that the handler reads,  *)
(* in a fixed order per type; "" is an absent field.  Any other sequence   *)
(* is not JSON.                                                            *)
(***************************************************************************)
SubTypes == {"customer.subscription.created", "customer.subscription.updated",
             "customer.subscription.deleted"}
InvoiceTypes == {"invoice_payment.paid", "invoice.payment_succeeded", "invoice.paid"}

\* Number("..."): the period ends that occur, in unix seconds
numberOf(tok) ==
    CASE tok = "1" -> 1
      [] tok = "2" -> 2
      [] tok = "3" -> 3
      [] OTHER -> 0

tokenOf(n) ==
    CASE n = 1 -> "1"
      [] n = 2 -> "2"
      [] n = 3 -> "3"
      [] OTHER -> ""

NoObject ==
    [id |-> "", status |-> "", cancel_at_period_end |-> FALSE,
     current_period_end |-> 0, customer |-> "", fan_id |-> "", creator_id |-> "",
     mode |-> "", subscription |-> "", charges_enabled |-> FALSE,
     payouts_enabled |-> FALSE, details_submitted |-> FALSE]

isJSON(rawBody) ==
    /\ Len(rawBody) >= 1
    /\ rawBody[1] # "%"
    /\ Len(rawBody) = (CASE rawBody[1] \in SubTypes -> 8
                         [] rawBody[1] = "checkout.session.completed" -> 5
                         [] rawBody[1] \in InvoiceTypes -> 2
                         [] rawBody[1] = "account.updated" -> 4
                         [] OTHER -> 1)

\* JSON.parse(rawBody), for a body that is JSON: [type, object]
JSONparse(rawBody) ==
    LET b == rawBody
    IN [type |-> b[1],
        object |->
          CASE b[1] \in SubTypes ->
                 [NoObject EXCEPT !.id = b[2], !.status = b[3],
                                  !.cancel_at_period_end = (b[4] = "true"),
                                  !.current_period_end = numberOf(b[5]),
                                  !.customer = b[6], !.fan_id = b[7],
                                  !.creator_id = b[8]]
            [] b[1] = "checkout.session.completed" ->
                 [NoObject EXCEPT !.mode = b[2], !.subscription = b[3],
                                  !.fan_id = b[4], !.creator_id = b[5]]
            [] b[1] \in InvoiceTypes ->
                 [NoObject EXCEPT !.subscription = b[2]]
            [] b[1] = "account.updated" ->
                 [NoObject EXCEPT !.id = b[2], !.charges_enabled = (b[3] = "true"),
                                  !.payouts_enabled = (b[4] = "true")]
            [] OTHER -> NoObject]

\* The body the provider sends for a subscription event about sub
subscriptionBody(type, sub) ==
    <<type, sub.id, sub.status,
      IF sub.cancel_at_period_end THEN "true" ELSE "false",
      tokenOf(sub.current_period_end), sub.customer, sub.fan_id, sub.creator_id>>

(***************************************************************************)
(* Domain helpers (stripe-webhook/index.ts 122-139).                       *)
(***************************************************************************)
\* safeStr: a non-string is "", a string is trimmed (" " is all blanks)
safeStr(x) == IF x = " " THEN "" ELSE x

\* an ISO timestamp is the tagged number of milliseconds it denotes
isoOfMillis(ms) == <<"iso", ms>>

\* isoFromUnix taking the seconds for milliseconds
isoFromUnixNoScale(sec) ==
    IF sec = 0 THEN NoIso
    ELSE isoOfMillis(sec)

isoFromUnix(sec) ==
    IF sec = 0 THEN NoIso
    ELSE isoOfMillis(sec * 1000)

\* the provider statuses of the status table
StatusTable == {"active", "trialing", "past_due", "unpaid", "paused", "canceled",
                "incomplete", "incomplete_expired"}

\* String.prototype.toLowerCase on the status strings that occur
toLowerCase(s) ==
    CASE s = "ACTIVE" -> "active"
      [] s = "Trialing" -> "trialing"
      [] s = "Past_Due" -> "past_due"
      [] s = "UNPAID" -> "unpaid"
      [] s = "Canceled" -> "canceled"
      [] s = "INCOMPLETE" -> "incomplete"
      [] s = "Incomplete_Expired" -> "incomplete_expired"
      [] s = "PAUSED" -> "paused"
      [] s = "Disputed" -> "disputed"
      [] s = "Pending" -> "pending"
      [] OTHER -> s

\* mapStatusToDb with the paused branch returning active
mapStatusToDbPausedActive(status) ==
    LET s == toLowerCase(status)
    IN IF s = "active" \/ s = "trialing" THEN "active"
       ELSE IF s = "past_due" \/ s = "unpaid" THEN "past_due"
       ELSE IF s = "canceled" THEN "canceled"
       ELSE IF s = "incomplete_expired" \/ s = "incomplete" THEN "expired"
       ELSE IF s = "paused" THEN "active"
       ELSE "past_due"

mapStatusToDb(status) ==
    LET s == toLowerCase(status)
    IN IF s = "active" \/ s = "trialing" THEN "active"
       ELSE IF s = "past_due" \/ s = "unpaid" THEN "past_due"
       ELSE IF s = "canceled" THEN "canceled"
       ELSE IF s = "incomplete_expired" \/ s = "incomplete" THEN "expired"
       ELSE IF s = "paused" THEN "past_due"
       ELSE "past_due"

(***************************************************************************)
(* The ledger store (PostgREST on table creator_subscriptions).            *)
(***************************************************************************)
BillingFields == {"status", "is_active", "current_period_end",
                  "stripe_customer_id", "stripe_subscription_id"}

billing(r) == [f \in BillingFields |-> r[f]]

\* a conflict target of the subscription id instead of the pair
onConflictSubscriptionId(r, row) ==
    r.stripe_subscription_id = row.stripe_subscription_id

\* on_conflict=creator_id,fan_id: the stored row that a posted row hits
onConflict(r, row) == r.creator_id = row.creator_id /\ r.fan_id = row.fan_id

\* ON CONFLICT DO UPDATE SET: the posted columns replace the stored ones,
\* the other columns of the stored row stay
\* the merge with current_period_end kept once it is set
mergeKeepingPeriodEnd(old, row, at) ==
    [old EXCEPT !.status = row.status, !.is_active = row.is_active,
                !.current_period_end =
                    IF old.current_period_end = NoIso THEN row.current_period_end
                    ELSE old.current_period_end,
                !.stripe_customer_id = row.stripe_customer_id,
                !.stripe_subscription_id = row.stripe_subscription_id,
                !.updated_at = at]

mergeDuplicates(old, row, at) ==
    [old EXCEPT !.status = row.status, !.is_active = row.is_active,
                !.current_period_end = row.current_period_end,
                !.stripe_customer_id = row.stripe_customer_id,
                !.stripe_subscription_id = row.stripe_subscription_id,
                !.updated_at = at]

\* INSERT of the posted columns; the other columns take their defaults
insertedRow(id, row, at) ==
    [id |-> id, fan_id |-> row.fan_id, creator_id |-> row.creator_id,
     status |-> row.status, is_active |-> row.is_active,
     current_period_end |-> row.current_period_end,
     stripe_customer_id |-> row.stripe_customer_id,
     stripe_subscription_id |-> row.stripe_subscription_id,
     cancel_at_period_end |-> FALSE, updated_at |-> at]

\* the upsert as a plain INSERT, with no conflict target
insertAlways(table, id, row, at) == table \cup {insertedRow(id, row, at)}

\* POST creator_subscriptions?on_conflict=creator_id,fan_id with
\* Prefer: resolution=merge-duplicates, as one statement of the store
upsertCreatorSubscriptionRow(table, id, row, at) ==
    IF \E r \in table : onConflict(r, row)
    THEN {IF onConflict(r, row) THEN mergeDuplicates(r, row, at) ELSE r : r \in table}
    ELSE table \cup {insertedRow(id, row, at)}

\* the cancellation patch without its filter
cancelEveryRow(table, stripeSubId, at) ==
    {[r EXCEPT !.status = "canceled", !.is_active = FALSE, !.updated_at = at] :
       r \in table}

\* PATCH creator_subscriptions?stripe_subscription_id=eq.<id>
cancelByStripeSubscriptionId(table, stripeSubId, at) ==
    {IF r.stripe_subscription_id = stripeSubId
     THEN [r EXCEPT !.status = "canceled", !.is_active = FALSE, !.updated_at = at]
     ELSE r : r \in table}

(***************************************************************************)
(* upsertFromStripeSubscription (stripe-webhook/index.ts 181-216): the row *)
(* it posts for a subscription object, when the metadata names the key.    *)
(***************************************************************************)
\* line 185 returning only when both ids are missing
hasKeyEither(sub) == safeStr(sub.fan_id) # "" \/ safeStr(sub.creator_id) # ""

hasKey(sub) == safeStr(sub.fan_id) # "" /\ safeStr(sub.creator_id) # ""

\* isActiveOf true for a scheduled cancel alone
isActiveOfScheduledOnly(cancelAtPeriodEnd, statusDbBase) == cancelAtPeriodEnd

\* isActiveOf with past_due giving no access
isActiveOfActiveOnly(cancelAtPeriodEnd, statusDbBase) ==
    IF cancelAtPeriodEnd THEN TRUE
    ELSE statusDbBase = "active"

\* isActiveOf without the scheduled-cancel branch
isActiveOfStatusOnly(cancelAtPeriodEnd, statusDbBase) ==
    (statusDbBase = "active" \/ statusDbBase = "past_due")

isActiveOf(cancelAtPeriodEnd, statusDbBase) ==
    IF cancelAtPeriodEnd THEN TRUE
    ELSE (statusDbBase = "active" \/ statusDbBase = "past_due")

rowFromStripeSubscription(sub) ==
    LET customerId == IF safeStr(sub.customer) # "" THEN safeStr(sub.customer) ELSE NULL
        stripeStatus == IF sub.status = "" THEN "past_due" ELSE sub.status
        statusDbBase == mapStatusToDb(stripeStatus)
        cpe == isoFromUnix(sub.current_period_end)
        cancelAtPeriodEnd == sub.cancel_at_period_end
        statusDb == IF cancelAtPeriodEnd THEN "canceled" ELSE statusDbBase
    IN [fan_id |-> safeStr(sub.fan_id),
        creator_id |-> safeStr(sub.creator_id),
        status |-> statusDb,
        is_active |-> isActiveOf(cancelAtPeriodEnd, statusDbBase),
        stripe_customer_id |-> customerId,
        stripe_subscription_id |-> IF safeStr(sub.id) # "" THEN safeStr(sub.id) ELSE NULL,
        current_period_end |-> cpe]

(***************************************************************************)
(* The universe of the model: the fans, creators, provider subscriptions   *)
(* and connected accounts that occur.                                      *)
(***************************************************************************)
SubIds == {"sub_1", "sub_2"}
Users == {"C1", "C2", "C3"}

InitStripeSubs ==
    [s \in SubIds |->
       IF s = "sub_1"
       THEN [NoObject EXCEPT !.id = "sub_1", !.status = "active",
                             !.current_period_end = 1, !.customer = "cus_1",
                             !.fan_id = "F1", !.creator_id = "C1"]
       ELSE [NoObject EXCEPT !.id = "sub_2", !.status = "active",
                             !.current_period_end = 2, !.customer = "cus_2",
                             !.creator_id = "C1"]]

InitProfiles ==
    [u \in Users |->
       [stripe_connect_account_id |-> IF u = "C1" THEN "acct_1" ELSE NULL,
        stripe_account_id |-> CASE u = "C2" -> "acct_2"
                                [] u = "C3" -> "acct_1"
                                [] OTHER -> NULL,
        charges_enabled |-> FALSE, payouts_enabled |-> FALSE,
        stripe_onboarding_status |-> "not_started", stripe_onboarded |-> FALSE]]

NotJsonBody == <<"%">>

NoCall == [fn |-> "none"]

\* the withdrawals that have been requested: one of each creator
WithdrawalIds == {"w1", "w2"}

InitWithdrawals ==
    [w \in WithdrawalIds |->
       [id |-> w, profile_id |-> IF w = "w1" THEN "C1" ELSE "C2",
        amount_cents |-> 500, status |-> "requested"]]

\* no function has seen any account yet
NotObserved == [u \in Users |-> <<>>]

IdleReq ==
    [pc |-> "idle", hasSig |-> FALSE, sig |-> <<>>, body |-> <<>>,
     sub |-> NoObject, user |-> "", row |-> 0, rowSub |-> "", patch |-> "none",
     failed |-> "none", status |-> 0, text |-> ""]

Init ==
    /\ ledger = {}
    /\ nextId = 1
    /\ profiles = InitProfiles
    /\ entitlements = {}
    /\ stripeSubs = InitStripeSubs
    /\ events = {}
    /\ now = 0
    /\ req = [p \in Procs |-> IdleReq]
    /\ lastWrite = <<>>
    /\ call = NoCall
    /\ observed = NotObserved
    /\ withdrawals = InitWithdrawals
    /\ transfers = {}

(***************************************************************************)
(* The provider: it changes a subscription or an account and emits the     *)
(* event that reports it.  Emitted events stay deliverable for ever        *)
(* (at-least-once delivery, in any order).                                 *)
(***************************************************************************)
\* the states a subscription can move to: <<status, cancel_at_period_end>>
lifecycle(sub) ==
    IF sub.status = "canceled" THEN {}
    ELSE IF sub.status = "active" /\ ~sub.cancel_at_period_end
         THEN {<<"active", TRUE>>, <<"past_due", FALSE>>, <<"canceled", FALSE>>}
    ELSE {<<"active", FALSE>>, <<"canceled", FALSE>>}

StripeSubscriptionChange(s) ==
    /\ Cardinality(events) < MaxEvents
    /\ \E to \in lifecycle(stripeSubs[s]) :
         LET sub == [stripeSubs[s] EXCEPT !.status = to[1],
                                          !.cancel_at_period_end = to[2]]
             type == IF to[1] = "canceled" THEN "customer.subscription.deleted"
                     ELSE "customer.subscription.updated"
         IN /\ stripeSubs' = [stripeSubs EXCEPT ![s] = sub]
            /\ events' = events \cup {subscriptionBody(type, sub)}
    /\ UNCHANGED <<ledger, nextId, profiles, entitlements, now, req, lastWrite, call, observed, withdrawals, transfers>>

\* the checkout sessions that complete: <<mode, subscription, fan_id, creator_id>>
CheckoutSessions ==
    {<<"subscription", "sub_1", "F1", "C1">>,
     <<"subscription", "sub_2", "F1", "C1">>,
     <<"subscription", "sub_2", "F2", "C1">>,
     <<"subscription", "sub_2", "", "">>}

StripeCheckoutCompleted ==
    /\ Cardinality(events) < MaxEvents
    /\ \E c \in CheckoutSessions :
         events' = events \cup {<<"checkout.session.completed">> \o c}
    /\ UNCHANGED <<ledger, nextId, profiles, entitlements, stripeSubs, now, req,
                   lastWrite, call, observed, withdrawals, transfers>>

StripeInvoicePaid ==
    /\ Cardinality(events) < MaxEvents
    /\ \E s \in SubIds :
         events' = events \cup {<<"invoice.paid", s>>}
    /\ UNCHANGED <<ledger, nextId, profiles, entitlements, stripeSubs, now, req,
                   lastWrite, call, observed, withdrawals, transfers>>

StripeAccountUpdated ==
    /\ Cardinality(events) < MaxEvents
    /\ \E a \in {"acct_1", "acct_2", "acct_x", ""}, ch \in {"true", "false"},
          po \in {"true", "false"} :
         events' = events \cup {<<"account.updated", a, ch, po>>}
    /\ UNCHANGED <<ledger, nextId, profiles, entitlements, stripeSubs, now, req,
                   lastWrite, call, observed, withdrawals, transfers>>

StripeOtherEvent ==
    /\ Cardinality(events) < MaxEvents
    /\ events' = events \cup {<<"charge.succeeded">>}
    /\ UNCHANGED <<ledger, nextId, profiles, entitlements, stripeSubs, now, req,
                   lastWrite, call, observed, withdrawals, transfers>>

Tick ==
    /\ now < MaxTime * 1000
    /\ now' = now + 1000
    /\ UNCHANGED <<ledger, nextId, profiles, entitlements, stripeSubs, events, req,
                   lastWrite, call, observed, withdrawals, transfers>>

(***************************************************************************)
(* The webhook handler (stripe-webhook/index.ts 227-366).  A request runs  *)
(* from one awaited network call to the next; each such stretch is one     *)
(* step, and the call it ends with succeeds or fails.                      *)
(***************************************************************************)
\* t=1,v1=<digest of "1.<body>" under secret>
signedHeader(secret, rawBody) ==
    <<"t", "=", "1", ",", "v", "1", "=">>
        \o hmacSHA256Hex(secret, <<"1", ".">> \o rawBody)

\* the stripe-signature header the provider sends with a body
ProviderSignature(rawBody) ==
    [has |-> TRUE, sig |-> signedHeader(STRIPE_WEBHOOK_SECRET, rawBody)]

\* headers of requests that do not come from the provider: none, an empty
\* one, one signed with another secret, one signed for another body
ForgedSignatures(rawBody) ==
    {[has |-> FALSE, sig |-> <<>>],
     [has |-> TRUE, sig |-> <<>>],
     [has |-> TRUE, sig |-> signedHeader("whsec_other", rawBody)],
     [has |-> TRUE, sig |-> signedHeader(STRIPE_WEBHOOK_SECRET, <<"x">> \o rawBody)]}

\* lines 233-242 with the header check dropped to "a header is present"
rejectsUnsignedOnly(hasSig, sig, rawBody) == ~hasSig \/ sig = <<>>

\* lines 233-242: the request is answered 400 before anything is parsed
rejects(hasSig, sig, rawBody) ==
    \/ ~hasSig
    \/ sig = <<>>
    \/ ~verifyStripeSignature(rawBody, sig, STRIPE_WEBHOOK_SECRET)

\* new Response(text, { status }): the request is answered
respond(r, status, text) ==
    [r EXCEPT !.pc = "done", !.status = status, !.text = text]

\* the responses of lines 241, 299-358 and 361
done(r, status) ==
    respond(r, status, CASE status = 200 -> "ok"
                         [] status = 400 -> "Webhook Error: invalid signature"
                         [] OTHER -> "Server Error")

\* lines 359-365 with a catch that logs and acknowledges
failAcknowledged(r, threw) == done([r EXCEPT !.failed = threw], 200)

\* lines 359-365: an awaited call threw, the catch answers 500
fail(r, threw) == done([r EXCEPT !.failed = threw], 500)

\* line 358 with a 400 for the kinds the handler does not know
ignoreAsError(r) == done(r, 400)

\* line 358: ignore others
ignore(r) == done(r, 200)

\* lines 244-358 up to the first awaited call: where a verified request goes
dispatch(r) ==
    IF ~isJSON(r.body) THEN fail(r, "JSON.parse")
    ELSE
    LET event == JSONparse(r.body)
        type == safeStr(event.type)
        obj == event.object
    IN IF type = "account.updated"
       THEN IF safeStr(obj.id) # "" THEN [r EXCEPT !.pc = "acct_lookup"]
            ELSE done(r, 200)
       ELSE IF type = "checkout.session.completed"
       THEN IF safeStr(obj.mode) # "subscription" THEN done(r, 200)
            ELSE IF safeStr(obj.subscription) = "" THEN done(r, 200)
            ELSE IF safeStr(obj.fan_id) # "" /\ safeStr(obj.creator_id) # ""
                 THEN [r EXCEPT !.pc = "co_patch"]
            ELSE [r EXCEPT !.pc = "sub_get"]
       ELSE IF type = "customer.subscription.created"
               \/ type = "customer.subscription.updated"
       THEN IF hasKey(obj) THEN [r EXCEPT !.pc = "upsert", !.sub = obj]
            ELSE done(r, 200)
       ELSE IF type \in InvoiceTypes
       THEN IF safeStr(obj.subscription) # "" THEN [r EXCEPT !.pc = "sub_get"]
            ELSE done(r, 200)
       ELSE IF type = "customer.subscription.deleted"
       THEN IF safeStr(obj.id) # "" THEN [r EXCEPT !.pc = "cancel"]
            ELSE done(r, 200)
       ELSE ignore(r)

object(p) == JSONparse(req[p].body).object

\* lines 232-358 up to the first awaited call, for a POST with this body
\* and this header; requests are numbered in their order of arrival
Receive(p, rawBody, h) ==
    /\ req[p].pc = "idle"
    /\ \A q \in Procs : q < p => req[q].pc # "idle"
    /\ LET r == [IdleReq EXCEPT !.hasSig = h.has, !.sig = h.sig, !.body = rawBody]
       IN req' = [req EXCEPT ![p] =
                    IF ~h.has \/ h.sig = <<>>
                    THEN respond(r, 400, "Missing stripe-signature")
                    ELSE IF rejects(h.has, h.sig, rawBody) THEN done(r, 400)
                    ELSE dispatch(r)]
    /\ UNCHANGED <<ledger, nextId, profiles, entitlements, stripeSubs, events, now,
                   lastWrite, call, observed, withdrawals, transfers>>

\* the provider delivers one of the events it has emitted
DeliverEvent(p) ==
    \E rawBody \in events : Receive(p, rawBody, ProviderSignature(rawBody))

\* somebody else posts to the endpoint
ForgedRequest(p) ==
    \E rawBody \in events \cup {NotJsonBody} :
    \E h \in ForgedSignatures(rawBody) : Receive(p, rawBody, h)

\* a signed body that is not JSON
MalformedRequest(p) ==
    \E rawBody \in {NotJsonBody} : Receive(p, rawBody, ProviderSignature(rawBody))

\* lines 316-322 without the inner try: a failed patch throws to the catch
PatchSubscriptionMetadataFatal(p) ==
    /\ req[p].pc = "co_patch"
    /\ \E ok \in BOOLEAN :
         LET subId == safeStr(object(p).subscription)
         IN IF ok /\ subId \in SubIds
            THEN /\ stripeSubs' = [stripeSubs EXCEPT
                                     ![subId].fan_id = safeStr(object(p).fan_id),
                                     ![subId].creator_id = safeStr(object(p).creator_id)]
                 /\ req' = [req EXCEPT ![p].pc = "sub_get", ![p].patch = "ok"]
            ELSE /\ stripeSubs' = stripeSubs
                 /\ req' = [req EXCEPT ![p] =
                              fail([@ EXCEPT !.patch = "failed"], "stripePOST")]
    /\ UNCHANGED <<ledger, nextId, profiles, entitlements, events, now, lastWrite, call, observed, withdrawals, transfers>>

\* lines 316-322: POST /v1/subscriptions/{id} with the session's metadata;
\* a failure is logged and the handler goes on
PatchSubscriptionMetadata(p) ==
    /\ req[p].pc = "co_patch"
    /\ \E ok \in BOOLEAN :
         LET subId == safeStr(object(p).subscription)
         IN IF ok /\ subId \in SubIds
            THEN /\ stripeSubs' = [stripeSubs EXCEPT
                                     ![subId].fan_id = safeStr(object(p).fan_id),
                                     ![subId].creator_id = safeStr(object(p).creator_id)]
                 /\ req' = [req EXCEPT ![p].pc = "sub_get", ![p].patch = "ok"]
            ELSE /\ stripeSubs' = stripeSubs
                 /\ req' = [req EXCEPT ![p].pc = "sub_get", ![p].patch = "failed"]
    /\ UNCHANGED <<ledger, nextId, profiles, entitlements, events, now, lastWrite, call, observed, withdrawals, transfers>>

\* lines 324 and 344 with a failed GET logged and the event acknowledged
GetSubscriptionFailureIgnored(p) ==
    /\ req[p].pc = "sub_get"
    /\ \E ok \in BOOLEAN :
         LET subId == safeStr(object(p).subscription)
         IN IF ok /\ subId \in SubIds
            THEN req' = [req EXCEPT ![p] =
                           IF hasKey(stripeSubs[subId])
                           THEN [@ EXCEPT !.pc = "upsert", !.sub = stripeSubs[subId]]
                           ELSE done([@ EXCEPT !.sub = stripeSubs[subId]], 200)]
            ELSE req' = [req EXCEPT ![p] = done([@ EXCEPT !.failed = "stripeGET"], 200)]
    /\ UNCHANGED <<ledger, nextId, profiles, entitlements, stripeSubs, events, now,
                   lastWrite, call, observed, withdrawals, transfers>>

\* lines 324 and 344: GET /v1/subscriptions/{id}; a failure throws
GetSubscription(p) ==
    /\ req[p].pc = "sub_get"
    /\ \E ok \in BOOLEAN :
         LET subId == safeStr(object(p).subscription)
         IN IF ok /\ subId \in SubIds
            THEN req' = [req EXCEPT ![p] =
                           IF hasKey(stripeSubs[subId])
                           THEN [@ EXCEPT !.pc = "upsert", !.sub = stripeSubs[subId]]
                           ELSE done([@ EXCEPT !.sub = stripeSubs[subId]], 200)]
            ELSE req' = [req EXCEPT ![p] = fail(@, "stripeGET")]
    /\ UNCHANGED <<ledger, nextId, profiles, entitlements, stripeSubs, events, now,
                   lastWrite, call, observed, withdrawals, transfers>>

\* lines 207-215: the upsert of the row, one statement of the store
Upsert(p) ==
    /\ req[p].pc = "upsert"
    /\ \E ok \in BOOLEAN :
         IF ok
         THEN /\ ledger' = upsertCreatorSubscriptionRow(
                              ledger, nextId, rowFromStripeSubscription(req[p].sub),
                              isoOfMillis(now))
              /\ nextId' = IF Cardinality(ledger') > Cardinality(ledger)
                           THEN nextId + 1 ELSE nextId
              /\ lastWrite' = req[p].body
              /\ req' = [req EXCEPT ![p] = done(@, 200)]
         ELSE /\ req' = [req EXCEPT ![p] = fail(@, "upsert")]
              /\ UNCHANGED <<ledger, nextId, lastWrite>>
    /\ UNCHANGED <<profiles, entitlements, stripeSubs, events, now, call, observed, withdrawals, transfers>>

\* lines 351-355: the cancellation patch, keyed by provider subscription id
Cancel(p) ==
    /\ req[p].pc = "cancel"
    /\ \E ok \in BOOLEAN :
         IF ok
         THEN /\ ledger' = cancelByStripeSubscriptionId(
                              ledger, safeStr(object(p).id), isoOfMillis(now))
              /\ lastWrite' = IF ledger' # ledger THEN req[p].body ELSE lastWrite
              /\ req' = [req EXCEPT ![p] = done(@, 200)]
         ELSE /\ req' = [req EXCEPT ![p] = fail(@, "cancel")]
              /\ UNCHANGED <<ledger, lastWrite>>
    /\ UNCHANGED <<nextId, profiles, entitlements, stripeSubs, events, now, call, observed, withdrawals, transfers>>

(***************************************************************************)
(* The account path (stripe-webhook/index.ts 249-300).                     *)
(***************************************************************************)
\* the first profile whose column equals the account id, "" when none
profileBy(column, acctId) ==
    IF \E u \in Users : profiles[u][column] = acctId
    THEN CHOOSE u \in Users : profiles[u][column] = acctId
    ELSE ""

\* lines 251-252: the flags of the account a function has in hand become
\* the flags last seen for the profile's user
sees(u, account) ==
    [observed EXCEPT ![u] = <<account.charges_enabled, account.payouts_enabled>>]

\* lines 256-267 with the first lookup left out
LookupByConnectIdSkipped(p) ==
    /\ req[p].pc = "acct_lookup"
    /\ \E ok \in BOOLEAN :
         req' = [req EXCEPT ![p] =
                   IF ok THEN [@ EXCEPT !.pc = "acct_lookup2"]
                   ELSE fail(@, "profiles GET")]
    /\ UNCHANGED <<ledger, nextId, profiles, entitlements, stripeSubs, events, now,
                   lastWrite, call, observed, withdrawals, transfers>>

\* lines 256-260: GET profiles by stripe_connect_account_id
LookupByConnectId(p) ==
    /\ req[p].pc = "acct_lookup"
    /\ \E ok \in BOOLEAN :
         IF ok
         THEN LET u == profileBy("stripe_connect_account_id", safeStr(object(p).id))
              IN /\ req' = [req EXCEPT ![p] =
                              IF u # "" THEN [@ EXCEPT !.pc = "acct_patch", !.user = u]
                              ELSE [@ EXCEPT !.pc = "acct_lookup2"]]
                 /\ observed' = IF u # "" THEN sees(u, object(p)) ELSE observed
         ELSE /\ req' = [req EXCEPT ![p] = fail(@, "profiles GET")]
              /\ UNCHANGED observed
    /\ UNCHANGED <<ledger, nextId, profiles, entitlements, stripeSubs, events, now,
                   lastWrite, call, withdrawals, transfers>>

\* lines 262-267 answering 404 when no profile has the account
LookupByAccountIdNotFound(p) ==
    /\ req[p].pc = "acct_lookup2"
    /\ \E ok \in BOOLEAN :
         IF ok
         THEN LET u == profileBy("stripe_account_id", safeStr(object(p).id))
              IN /\ req' = [req EXCEPT ![p] =
                              IF u # "" THEN [@ EXCEPT !.pc = "acct_patch", !.user = u]
                              ELSE respond(@, 404, "Unknown account")]
                 /\ observed' = IF u # "" THEN sees(u, object(p)) ELSE observed
         ELSE /\ req' = [req EXCEPT ![p] = fail(@, "profiles GET")]
              /\ UNCHANGED observed
    /\ UNCHANGED <<ledger, nextId, profiles, entitlements, stripeSubs, events, now,
                   lastWrite, call, withdrawals, transfers>>

\* lines 262-267: GET profiles by stripe_account_id
LookupByAccountId(p) ==
    /\ req[p].pc = "acct_lookup2"
    /\ \E ok \in BOOLEAN :
         IF ok
         THEN LET u == profileBy("stripe_account_id", safeStr(object(p).id))
              IN /\ req' = [req EXCEPT ![p] =
                              IF u # "" THEN [@ EXCEPT !.pc = "acct_patch", !.user = u]
                              ELSE done(@, 200)]
                 /\ observed' = IF u # "" THEN sees(u, object(p)) ELSE observed
         ELSE /\ req' = [req EXCEPT ![p] = fail(@, "profiles GET")]
              /\ UNCHANGED observed
    /\ UNCHANGED <<ledger, nextId, profiles, entitlements, stripeSubs, events, now,
                   lastWrite, call, withdrawals, transfers>>

\* line 253 with || for &&
onboardingDoneEither(chargesEnabled, payoutsEnabled) ==
    chargesEnabled \/ payoutsEnabled

\* line 253
onboardingDone(chargesEnabled, payoutsEnabled) ==
    chargesEnabled /\ payoutsEnabled

\* lines 272-280: PATCH profiles?user_id=eq.<user>
PatchProfile(p) ==
    /\ req[p].pc = "acct_patch"
    /\ \E ok \in BOOLEAN :
         LET chargesEnabled == object(p).charges_enabled
             payoutsEnabled == object(p).payouts_enabled
             isDone == onboardingDone(chargesEnabled, payoutsEnabled)
         IN IF ok
            THEN /\ profiles' = [profiles EXCEPT
                       ![req[p].user].charges_enabled = chargesEnabled,
                       ![req[p].user].payouts_enabled = payoutsEnabled,
                       ![req[p].user].stripe_onboarding_status =
                           IF isDone THEN "completed" ELSE "started"]
                 /\ req' = [req EXCEPT ![p] =
                              IF isDone THEN [@ EXCEPT !.pc = "acct_grant"]
                              ELSE done(@, 200)]
            ELSE /\ req' = [req EXCEPT ![p] = fail(@, "profiles PATCH")]
                 /\ UNCHANGED profiles
    /\ UNCHANGED <<ledger, nextId, entitlements, stripeSubs, events, now, lastWrite, call, observed, withdrawals, transfers>>

\* lines 282-295: POST entitlements with resolution=merge-duplicates
GrantPayouts(p) ==
    /\ req[p].pc = "acct_grant"
    /\ \E ok \in BOOLEAN :
         IF ok
         THEN /\ entitlements' =
                    {e \in entitlements :
                       ~(e.user_id = req[p].user /\ e.key = "payouts_enabled")}
                    \cup {[user_id |-> req[p].user, key |-> "payouts_enabled",
                           status |-> "active", updated_at |-> isoOfMillis(now)]}
              /\ req' = [req EXCEPT ![p] = done(@, 200)]
         ELSE /\ req' = [req EXCEPT ![p] = fail(@, "entitlements POST")]
              /\ UNCHANGED entitlements
    /\ UNCHANGED <<ledger, nextId, profiles, stripeSubs, events, now, lastWrite, call, observed, withdrawals, transfers>>

(***************************************************************************)
(* Spec: the subscription paths of the webhook, with the provider's        *)
(* subscriptions moving through their lifecycle and every emitted event    *)
(* delivered any number of times, in any order, concurrently.              *)
(***************************************************************************)
Next ==
    \/ \E s \in SubIds : StripeSubscriptionChange(s)
    \/ StripeCheckoutCompleted
    \/ StripeInvoicePaid
    \/ \E p \in Procs : DeliverEvent(p)
    \/ \E p \in Procs : PatchSubscriptionMetadata(p)
    \/ \E p \in Procs : GetSubscription(p)
    \/ \E p \in Procs : Upsert(p)
    \/ \E p \in Procs : Cancel(p)

Spec == Init /\ [][Next]_vars

(***************************************************************************)
(* SpecSubject: one subscription created/updated event with an arbitrary   *)
(* subject, delivered any number of times while the clock runs.            *)
(***************************************************************************)
SubjectStatuses ==
    StatusTable \cup {"ACTIVE", "disputed", ""}

SubjectBodies ==
    {subscriptionBody(type,
        [NoObject EXCEPT !.id = "sub_1", !.status = st,
                         !.cancel_at_period_end = cape,
                         !.current_period_end = cpe, !.customer = cus,
                         !.fan_id = fan, !.creator_id = "C1"]) :
       type \in {"customer.subscription.created", "customer.subscription.updated"},
       st \in SubjectStatuses, cape \in BOOLEAN, cpe \in {0, 1, 2},
       cus \in {"cus_1", ""}, fan \in {"F1", " "}}

InitSubject ==
    /\ ledger = {}
    /\ nextId = 1
    /\ profiles = InitProfiles
    /\ entitlements = {}
    /\ stripeSubs = InitStripeSubs
    /\ events \in {{b} : b \in SubjectBodies}
    /\ now = 0
    /\ req = [p \in Procs |-> IdleReq]
    /\ lastWrite = <<>>
    /\ call = NoCall
    /\ observed = NotObserved
    /\ withdrawals = InitWithdrawals
    /\ transfers = {}

NextSubject ==
    \/ Tick
    \/ \E p \in Procs : DeliverEvent(p)
    \/ \E p \in Procs : Upsert(p)

SpecSubject == InitSubject /\ [][NextSubject]_vars

(***************************************************************************)
(* SpecRouter: one event of any kind, delivered by the provider any number *)
(* of times, next to requests that do not come from the provider.          *)
(***************************************************************************)
RouterBodies ==
    {<<"account.updated", a, ch, po>> :
        a \in {"acct_1", "acct_2"}, ch \in {"true", "false"}, po \in {"true", "false"}}
    \cup {<<"account.updated", "acct_x", "true", "true">>,
          <<"account.updated", "", "true", "true">>}
    \cup {<<"checkout.session.completed">> \o c : c \in CheckoutSessions}
    \cup {<<"checkout.session.completed", "subscription", "", "F1", "C1">>,
          <<"checkout.session.completed", "payment", "", "F1", "C1">>}
    \cup {subscriptionBody(type, InitStripeSubs[s]) : type \in SubTypes, s \in SubIds}
    \cup {subscriptionBody("customer.subscription.deleted", NoObject)}
    \cup {<<type, "sub_1">> : type \in InvoiceTypes}
    \cup {<<"invoice.paid", "">>, <<"charge.succeeded">>,
          <<"customer.subscription.paused">>}

InitRouter ==
    /\ ledger = {}
    /\ nextId = 1
    /\ profiles = InitProfiles
    /\ entitlements = {}
    /\ stripeSubs = InitStripeSubs
    /\ events \in {{b} : b \in RouterBodies}
    /\ now = 0
    /\ req = [p \in Procs |-> IdleReq]
    /\ lastWrite = <<>>
    /\ call = NoCall
    /\ observed = NotObserved
    /\ withdrawals = InitWithdrawals
    /\ transfers = {}

NextRouter ==
    \/ \E p \in Procs : DeliverEvent(p)
    \/ \E p \in Procs : ForgedRequest(p)
    \/ \E p \in Procs : MalformedRequest(p)
    \/ \E p \in Procs : PatchSubscriptionMetadata(p)
    \/ \E p \in Procs : GetSubscription(p)
    \/ \E p \in Procs : Upsert(p)
    \/ \E p \in Procs : Cancel(p)
    \/ \E p \in Procs : LookupByConnectId(p)
    \/ \E p \in Procs : LookupByAccountId(p)
    \/ \E p \in Procs : PatchProfile(p)
    \/ \E p \in Procs : GrantPayouts(p)

SpecRouter == InitRouter /\ [][NextRouter]_vars

(***************************************************************************)
(* SpecTimeout: the handler with calls that may never be answered.  The    *)
(* fetch calls of sbAdmin, stripeGET and stripePOST (lines 35, 59, 69)     *)
(* pass no AbortSignal and nothing else bounds them: a request whose call  *)
(* is never answered stays at its await.  A received request whose call    *)
(* can be answered is eventually resumed by the runtime.                   *)
(***************************************************************************)
AwaitingCall ==
    {"acct_lookup", "acct_lookup2", "acct_patch", "acct_grant", "co_patch",
     "sub_get", "upsert", "cancel"}

\* the call that p awaits is never answered
NeverAnswers(p) ==
    /\ req[p].pc \in AwaitingCall
    /\ req' = [req EXCEPT ![p].pc = "pending", ![p].failed = "no answer"]
    /\ UNCHANGED <<ledger, nextId, profiles, entitlements, stripeSubs, events, now,
                   lastWrite, call, observed, withdrawals, transfers>>

\* the steps of request p once it is received: a call of p is answered and
\* p runs to its next await or to its response
step(p) ==
    \/ PatchSubscriptionMetadata(p)
    \/ GetSubscription(p)
    \/ Upsert(p)
    \/ Cancel(p)
    \/ LookupByConnectId(p)
    \/ LookupByAccountId(p)
    \/ PatchProfile(p)
    \/ GrantPayouts(p)

NextTimeout ==
    \/ \E p \in Procs : DeliverEvent(p)
    \/ \E p \in Procs : step(p)
    \/ \E p \in Procs : NeverAnswers(p)

SpecTimeout ==
    InitRouter /\ [][NextTimeout]_vars /\ \A p \in Procs : WF_vars(step(p))

(***************************************************************************)
(* SpecCancel: one customer.subscription.deleted event, delivered any      *)
(* number of times while the clock runs, to a ledger that earlier events   *)
(* have filled: each of its rows is a row the subscription path inserts.   *)
(***************************************************************************)
\* the subscriptions whose rows the ledger may hold; the third is the first
\* under another creator, the fourth has no id
CancelSubjects ==
    <<[NoObject EXCEPT !.id = "sub_1", !.status = "active",
                       !.current_period_end = 1, !.customer = "cus_1",
                       !.fan_id = "F1", !.creator_id = "C1"],
      [NoObject EXCEPT !.id = "sub_2", !.status = "active",
                       !.cancel_at_period_end = TRUE,
                       !.current_period_end = 2, !.customer = "cus_2",
                       !.fan_id = "F2", !.creator_id = "C1"],
      [NoObject EXCEPT !.id = "sub_1", !.status = "past_due",
                       !.current_period_end = 1, !.customer = "cus_1",
                       !.fan_id = "F1", !.creator_id = "C2"],
      [NoObject EXCEPT !.status = "incomplete",
                       !.fan_id = "F2", !.creator_id = "C2"]>>

CancelRows ==
    {insertedRow(i, rowFromStripeSubscription(CancelSubjects[i]), isoOfMillis(0)) :
       i \in 1..Len(CancelSubjects)}

\* the deleted events: for each subscription, and one with a blank id
CancelBodies ==
    {subscriptionBody("customer.subscription.deleted",
                      [InitStripeSubs[s] EXCEPT !.status = "canceled"]) : s \in SubIds}
    \cup {subscriptionBody("customer.subscription.deleted",
                           [NoObject EXCEPT !.id = " ", !.status = "canceled"])}

InitCancel ==
    /\ ledger \in SUBSET CancelRows
    /\ nextId = Len(CancelSubjects) + 1
    /\ profiles = InitProfiles
    /\ entitlements = {}
    /\ stripeSubs = InitStripeSubs
    /\ events \in {{b} : b \in CancelBodies}
    /\ now = 0
    /\ req = [p \in Procs |-> IdleReq]
    /\ lastWrite = <<>>
    /\ call = NoCall
    /\ observed = NotObserved
    /\ withdrawals = InitWithdrawals
    /\ transfers = {}

NextCancel ==
    \/ Tick
    \/ \E p \in Procs : DeliverEvent(p)
    \/ \E p \in Procs : Cancel(p)

SpecCancel == InitCancel /\ [][NextCancel]_vars

(***************************************************************************)
(* SpecStale: the provider has deleted sub_1.  Its deleted event and an    *)
(* event it emitted about sub_1 before are both deliverable, any number of *)
(* times and in any order, to a ledger that earlier events have filled.    *)
(***************************************************************************)
StaleBodies ==
    {subscriptionBody(type, [InitStripeSubs["sub_1"] EXCEPT !.status = st]) :
       type \in {"customer.subscription.created", "customer.subscription.updated"},
       st \in {"active", "past_due"}}

InitStale ==
    /\ ledger \in SUBSET CancelRows
    /\ nextId = Len(CancelSubjects) + 1
    /\ profiles = InitProfiles
    /\ entitlements = {}
    /\ stripeSubs = [InitStripeSubs EXCEPT !["sub_1"].status = "canceled"]
    /\ \E b \in StaleBodies :
         events = {b, subscriptionBody("customer.subscription.deleted",
                                       stripeSubs["sub_1"])}
    /\ now = 0
    /\ req = [p \in Procs |-> IdleReq]
    /\ lastWrite = <<>>
    /\ call = NoCall
    /\ observed = NotObserved
    /\ withdrawals = InitWithdrawals
    /\ transfers = {}

NextStale ==
    \/ \E p \in Procs : DeliverEvent(p)
    \/ \E p \in Procs : Upsert(p)
    \/ \E p \in Procs : Cancel(p)

SpecStale == InitStale /\ [][NextStale]_vars

(***************************************************************************)
(* The fan's calls: cancel-subscription (cancel-subscriptions/index.ts)    *)
(* and resume-subscription (unnamed/part_001).  A call is a request like a *)
(* webhook delivery; its body is <<function, fan, creator_id,              *)
(* stripe_subscription_id>>, the fan being the authenticated user ("" when *)
(* the token names none).                                                  *)
(***************************************************************************)
\* json(status, data)
json(r, status) == respond(r, status, "json")

\* cancel-subscriptions/index.ts 32-35
toIsoFromStripeUnix(seconds) ==
    IF seconds = 0 THEN NoIso
    ELSE isoOfMillis(seconds * 1000)

\* cancel-subscriptions/index.ts 37-40 without the comparison with the clock
isStillActiveAlways(periodEndIso, at) == TRUE

\* cancel-subscriptions/index.ts 37-40
isStillActive(periodEndIso, at) ==
    IF periodEndIso = NoIso THEN TRUE
    ELSE periodEndIso[2] > at

\* order("created_at", descending).limit(1).maybeSingle(): the row created
\* last, 0 when there is none; rows are created in the order of their ids
latest(rows) ==
    IF rows = {} THEN 0
    ELSE (CHOOSE r \in rows : \A r2 \in rows : r2.id <= r.id).id

\* cancel-subscriptions/index.ts 101-118 without .eq("fan_id", fanId)
cancelFindAnyFan(table, fanId, creator_id, stripeSubId) ==
    latest({r \in table :
              IF stripeSubId # ""
              THEN r.stripe_subscription_id = stripeSubId
              ELSE /\ r.creator_id = creator_id
                   /\ r.status \in {"active", "trialing", "past_due",
                                    "canceled", "unpaid"}})

\* cancel-subscriptions/index.ts 101-118: the row the query finds
cancelFind(table, fanId, creator_id, stripeSubId) ==
    latest({r \in table :
              /\ r.fan_id = fanId
              /\ IF stripeSubId # ""
                 THEN r.stripe_subscription_id = stripeSubId
                 ELSE /\ r.creator_id = creator_id
                      /\ r.status \in {"active", "trialing", "past_due",
                                       "canceled", "unpaid"}})

\* part_001 89-101: the row the query finds
resumeFind(table, fanId, creatorId, stripeSubId) ==
    latest({r \in table :
              /\ r.fan_id = fanId
              /\ IF stripeSubId # ""
                 THEN r.stripe_subscription_id = stripeSubId
                 ELSE r.creator_id = creatorId /\ r.is_active = TRUE})

\* update(...).eq("id", id) as a DELETE of the row
deleteById(table, id, columns) == {r \in table : r.id # id}

\* from("creator_subscriptions").update(columns).eq("id", id)
updateById(table, id, columns) ==
    {IF r.id = id
     THEN [f \in DOMAIN r |-> IF f \in DOMAIN columns THEN columns[f] ELSE r[f]]
     ELSE r : r \in table}

\* cancel-subscriptions/index.ts 134-140 and 164-170: the columns written
cancelColumns(sub, at) ==
    [status |-> sub.status,
     cancel_at_period_end |-> TRUE,
     current_period_end |-> toIsoFromStripeUnix(sub.current_period_end),
     is_active |-> isStillActive(toIsoFromStripeUnix(sub.current_period_end), at),
     updated_at |-> isoOfMillis(at)]

\* part_001 119-124 and 150-155: the columns written
resumeColumns(sub, at) ==
    [status |-> "active",
     is_active |-> TRUE,
     current_period_end |-> IF sub.current_period_end # 0
                            THEN isoOfMillis(sub.current_period_end * 1000)
                            ELSE NoIso,
     updated_at |-> isoOfMillis(at)]

FanFunctions == {"cancel-subscription", "resume-subscription"}

\* the calls that are made: <<fan, creator_id, stripe_subscription_id>>
FanCalls ==
    {<<"F1", "C1", "">>, <<"F1", "", "sub_1">>, <<"F1", "", "">>,
     <<"F1", "F1", "">>, <<"", "C1", "">>, <<"F2", "C1", "">>,
     <<"F2", "", "sub_1">>}

\* the function and the row of a fan's call in progress
fn(p) == req[p].body[1]

\* cancel-subscriptions/index.ts 68-98, part_001 59-86: a call arrives
FanCall(p) ==
    /\ req[p].pc = "idle"
    /\ \A q \in Procs : q < p => req[q].pc # "idle"
    /\ \E f \in FanFunctions, c \in FanCalls :
         LET r == [IdleReq EXCEPT !.body = <<f>> \o c, !.user = c[1]]
             fanId == c[1]
             creator_id == c[2]
             stripeSubId == c[3]
         IN req' = [req EXCEPT ![p] =
                      IF fanId = "" THEN json(r, 401)
                      ELSE IF creator_id = "" /\ stripeSubId = "" THEN json(r, 400)
                      ELSE IF f = "cancel-subscription" /\ creator_id = fanId
                           THEN json(r, 400)
                      ELSE [r EXCEPT !.pc = "fan_find"]]
    /\ UNCHANGED <<ledger, nextId, profiles, entitlements, stripeSubs, events, now,
                   lastWrite, call, observed, withdrawals, transfers>>

\* cancel-subscriptions/index.ts 101-122, part_001 89-105: find the row
FindRow(p) ==
    /\ req[p].pc = "fan_find"
    /\ \E ok \in BOOLEAN :
         LET b == req[p].body
             id == IF fn(p) = "cancel-subscription"
                   THEN cancelFind(ledger, b[2], b[3], b[4])
                   ELSE resumeFind(ledger, b[2], b[3], b[4])
             found == {r \in ledger : r.id = id /\ r.stripe_subscription_id # NULL}
         IN IF ~ok THEN req' = [req EXCEPT ![p] = json([@ EXCEPT !.failed = "find"], 500)]
            ELSE IF found = {} THEN req' = [req EXCEPT ![p] = json(@, 404)]
            ELSE req' = [req EXCEPT ![p] =
                           [@ EXCEPT !.pc = "fan_retrieve", !.row = id,
                                     !.rowSub = (CHOOSE r \in found : TRUE)
                                                    .stripe_subscription_id]]
    /\ UNCHANGED <<ledger, nextId, profiles, entitlements, stripeSubs, events, now,
                   lastWrite, call, observed, withdrawals, transfers>>

\* part_001 108-141 with the provider update issued whatever was retrieved
RetrieveSubscriptionAlwaysUpdates(p) ==
    /\ req[p].pc = "fan_retrieve"
    /\ \E ok \in BOOLEAN :
         IF ok /\ req[p].rowSub \in SubIds
         THEN req' = [req EXCEPT ![p] =
                        [@ EXCEPT !.pc = "fan_update",
                                  !.sub = stripeSubs[req[p].rowSub]]]
         ELSE req' = [req EXCEPT ![p] = json([@ EXCEPT !.failed = "retrieve"], 500)]
    /\ UNCHANGED <<ledger, nextId, profiles, entitlements, stripeSubs, events, now,
                   lastWrite, call, observed, withdrawals, transfers>>

\* cancel-subscriptions/index.ts 125-128, part_001 108-111:
\* stripe.subscriptions.retrieve; a failure throws to the catch
RetrieveSubscription(p) ==
    /\ req[p].pc = "fan_retrieve"
    /\ \E ok \in BOOLEAN :
         IF ok /\ req[p].rowSub \in SubIds
         THEN LET current == stripeSubs[req[p].rowSub]
                  already == IF fn(p) = "cancel-subscription"
                             THEN current.cancel_at_period_end
                             ELSE ~current.cancel_at_period_end
              IN req' = [req EXCEPT ![p] =
                           [@ EXCEPT !.pc = IF already THEN "fan_write" ELSE "fan_update",
                                     !.sub = current]]
         ELSE req' = [req EXCEPT ![p] = json([@ EXCEPT !.failed = "retrieve"], 500)]
    /\ UNCHANGED <<ledger, nextId, profiles, entitlements, stripeSubs, events, now,
                   lastWrite, call, observed, withdrawals, transfers>>

\* cancel-subscriptions/index.ts 155-157, part_001 139-141:
\* stripe.subscriptions.update of cancel_at_period_end; the provider reports
\* the change with a customer.subscription.updated event
UpdateSubscription(p) ==
    /\ req[p].pc = "fan_update"
    /\ \E ok \in BOOLEAN :
         IF ok /\ stripeSubs[req[p].rowSub].status # "canceled"
         THEN LET updated == [stripeSubs[req[p].rowSub] EXCEPT
                                !.cancel_at_period_end = (fn(p) = "cancel-subscription")]
              IN /\ stripeSubs' = [stripeSubs EXCEPT ![req[p].rowSub] = updated]
                 /\ events' = events \cup
                       {subscriptionBody("customer.subscription.updated", updated)}
                 /\ req' = [req EXCEPT ![p] = [@ EXCEPT !.pc = "fan_write",
                                                        !.sub = updated]]
         ELSE /\ req' = [req EXCEPT ![p] = json([@ EXCEPT !.failed = "update"], 500)]
              /\ UNCHANGED <<stripeSubs, events>>
    /\ UNCHANGED <<ledger, nextId, profiles, entitlements, now, lastWrite, call, observed, withdrawals, transfers>>

\* cancel-subscriptions/index.ts 132-151 and 162-181, part_001 117-136 and
\* 148-165: the update of the row found, by its id
UpdateRow(p) ==
    /\ req[p].pc = "fan_write"
    /\ \E ok \in BOOLEAN :
         IF ok
         THEN /\ ledger' = updateById(ledger, req[p].row,
                              IF fn(p) = "cancel-subscription"
                              THEN cancelColumns(req[p].sub, now)
                              ELSE resumeColumns(req[p].sub, now))
              /\ req' = [req EXCEPT ![p] = json(@, 200)]
         ELSE /\ req' = [req EXCEPT ![p] = json([@ EXCEPT !.failed = "row update"], 500)]
              /\ UNCHANGED ledger
    /\ UNCHANGED <<nextId, profiles, entitlements, stripeSubs, events, now,
                   lastWrite, call, observed, withdrawals, transfers>>

(***************************************************************************)
(* SpecFan: the fan's calls next to the webhook, on a ledger that holds    *)
(* the row of fan F1's subscription sub_1 to creator C1 as the webhook     *)
(* wrote it, the subscription being in any of its live provider states,    *)
(* and the row of fan F2's subscription sub_2 to the same creator.         *)
(***************************************************************************)
FanSubjects ==
    {[InitStripeSubs["sub_1"] EXCEPT !.status = st, !.cancel_at_period_end = cape] :
       st \in {"active", "trialing", "past_due"}, cape \in BOOLEAN}

InitFan ==
    /\ \E sub \in FanSubjects :
         /\ stripeSubs = [InitStripeSubs EXCEPT !["sub_1"] = sub,
                                                !["sub_2"].fan_id = "F2",
                                                !["sub_2"].current_period_end = 0]
         /\ ledger = {insertedRow(1, rowFromStripeSubscription(sub), isoOfMillis(0)),
                      insertedRow(2, rowFromStripeSubscription(stripeSubs["sub_2"]),
                                  isoOfMillis(0))}
    /\ nextId = 3
    /\ profiles = InitProfiles
    /\ entitlements = {}
    /\ events = {}
    /\ now = 0
    /\ req = [p \in Procs |-> IdleReq]
    /\ lastWrite = <<>>
    /\ call = NoCall
    /\ observed = NotObserved
    /\ withdrawals = InitWithdrawals
    /\ transfers = {}

NextFan ==
    \/ Tick
    \/ \E p \in Procs : FanCall(p)
    \/ \E p \in Procs : FindRow(p)
    \/ \E p \in Procs : RetrieveSubscription(p)
    \/ \E p \in Procs : UpdateSubscription(p)
    \/ \E p \in Procs : UpdateRow(p)
    \/ \E p \in Procs : DeliverEvent(p)
    \/ \E p \in Procs : Upsert(p)

SpecFan == InitFan /\ [][NextFan]_vars

(***************************************************************************)
(* SpecPure: the pure helpers, each called once on inputs drawn from       *)
(* bounded sets.                                                           *)
(***************************************************************************)
SigBodies == {<<"a">>, <<"b">>}

\* the elements a signature header is made of: scheme and value
SigElements ==
    LET mac(secret, t, body) == hmacSHA256Hex(secret, <<t, ".">> \o body)
    IN  {[k |-> <<"t">>, v |-> t] : t \in {<<>>, <<"1">>, <<"2">>}}
        \cup {[k |-> <<"v", "1">>, v |-> v] :
                v \in {mac(STRIPE_WEBHOOK_SECRET, "1", <<"a">>),
                       mac(STRIPE_WEBHOOK_SECRET, "1", <<"b">>),
                       mac(STRIPE_WEBHOOK_SECRET, "2", <<"a">>),
                       mac("whsec_other", "1", <<"a">>),
                       <<"mac", STRIPE_WEBHOOK_SECRET, "1", ".">>,
                       <<>>}}
        \cup {[k |-> <<"v", "0">>, v |-> <<"z">>]}

SeqsUpTo(S, n) == UNION {[1..m -> S] : m \in 0..n}

\* the header text of a sequence of elements, joined by sep
RECURSIVE headerText(_, _)
headerText(elements, sep) ==
    IF elements = <<>> THEN <<>>
    ELSE LET e == Head(elements)
             first == e.k \o <<"=">> \o e.v
         IN IF Len(elements) = 1 THEN first
            ELSE first \o sep \o headerText(Tail(elements), sep)

CallVerifyStripeSignature ==
    /\ call = NoCall
    /\ \E elements \in SeqsUpTo(SigElements, MaxParts), rawBody \in SigBodies,
          sep \in {<<",">>, <<",", " ">>} :
         call' = [fn |-> "verifyStripeSignature", elements |-> elements,
                  rawBody |-> rawBody,
                  out |-> verifyStripeSignature(rawBody, headerText(elements, sep),
                                                STRIPE_WEBHOOK_SECRET)]
    /\ UNCHANGED <<ledger, nextId, profiles, entitlements, stripeSubs, events, now,
                   req, lastWrite, observed, withdrawals, transfers>>

StatusStrings ==
    StatusTable
    \cup {"ACTIVE", "Trialing", "Past_Due", "UNPAID", "PAUSED", "Canceled",
          "INCOMPLETE", "Incomplete_Expired"}
    \cup {"disputed", "Disputed", "", "activ", "active "}

CallMapStatusToDb ==
    /\ call = NoCall
    /\ \E status \in StatusStrings :
         call' = [fn |-> "mapStatusToDb", status |-> status,
                  out |-> mapStatusToDb(status)]
    /\ UNCHANGED <<ledger, nextId, profiles, entitlements, stripeSubs, events, now,
                   req, lastWrite, observed, withdrawals, transfers>>

NextPure ==
    \/ CallVerifyStripeSignature
    \/ CallMapStatusToDb

SpecPure == Init /\ [][NextPure]_vars

(***************************************************************************)
(* C2.  verifyStripeSignature accepts exactly the headers that carry a     *)
(* non-empty t (the value of the first t= element) and at least one v1     *)
(* element whose value is the digest of "<t>.<raw body>" under the secret. *)
(* Any one matching v1 among several suffices; a header none of whose v1   *)
(* values is that digest is rejected.                                      *)
(***************************************************************************)
valuesOf(elements, scheme) ==
    LET picked == SelectSeq(elements, LAMBDA e : e.k = scheme)
    IN [i \in 1..Len(picked) |-> picked[i].v]

C2_AcceptsIffSomeV1Matches ==
    call.fn = "verifyStripeSignature" =>
        LET ts == valuesOf(call.elements, <<"t">>)
            v1s == valuesOf(call.elements, <<"v", "1">>)
        IN call.out <=>
             /\ ts # <<>>
             /\ ts[1] # <<>>
             /\ \E i \in 1..Len(v1s) :
                  v1s[i] = hmacSHA256Hex(STRIPE_WEBHOOK_SECRET,
                                         ts[1] \o <<".">> \o call.rawBody)

\* accepted on the second of two v1 values, the first being a digest under
\* another secret
C2_Witness ==
    /\ call.fn = "verifyStripeSignature"
    /\ call.out
    /\ LET v1s == valuesOf(call.elements, <<"v", "1">>)
       IN /\ Len(v1s) = 2
          /\ v1s[1] = hmacSHA256Hex("whsec_other", <<"1", ".", "a">>)
          /\ v1s[2] = hmacSHA256Hex(STRIPE_WEBHOOK_SECRET, <<"1", ".", "a">>)

(***************************************************************************)
(* C8.  mapStatusToDb follows the status table.  As claimed: every string  *)
(* that is not literally a table entry maps to past_due.                   *)
(***************************************************************************)
tableStatus(s) ==
    CASE s \in {"active", "trialing"} -> "active"
      [] s \in {"past_due", "unpaid", "paused"} -> "past_due"
      [] s = "canceled" -> "canceled"
      [] s \in {"incomplete", "incomplete_expired"} -> "expired"
      [] OTHER -> "past_due"

C8_Original_ExactTable ==
    call.fn = "mapStatusToDb" => call.out = tableStatus(call.status)

\* C8 as amended: the table is matched on the lower-cased input, so a
\* differently cased entry maps like the entry, and every string whose
\* lower-case form is no table entry maps to past_due.
C8_TableOnLowerCase ==
    call.fn = "mapStatusToDb" =>
        /\ call.out = tableStatus(toLowerCase(call.status))
        /\ toLowerCase(call.status) \notin StatusTable => call.out = "past_due"

C8_Witness ==
    /\ call.fn = "mapStatusToDb"
    /\ call.status = "Disputed"
    /\ call.out = "past_due"

(***************************************************************************)
(* C1.  A POST whose stripe-signature header is missing, or present with   *)
(* no v1 value equal to the digest of "<t>.<raw body>", is answered 400 in *)
(* the step that receives it: the request ends there, having called        *)
(* neither the store nor the provider, and ledger, profiles, entitlements  *)
(* and the provider's subscriptions are unchanged.                         *)
(***************************************************************************)
noMatchingV1(r) ==
    LET parsed == parseStripeSigHeader(r.sig)
    IN ~\E i \in 1..Len(parsed.v1s) :
          parsed.v1s[i] = hmacSHA256Hex(STRIPE_WEBHOOK_SECRET,
                                        parsed.t \o <<".">> \o r.body)

C1_BadSignatureRejected ==
    [][\A p \in Procs :
         (req[p].pc = "idle" /\ req'[p].pc # "idle"
            /\ (~req'[p].hasSig \/ noMatchingV1(req'[p])))
         => /\ req'[p].pc = "done"
            /\ req'[p].status = 400
            /\ UNCHANGED <<ledger, profiles, entitlements, stripeSubs>>]_vars

\* a request signed with another secret was answered 400 while the ledger
\* held a row
C1_Witness ==
    \E p \in Procs :
        /\ req[p].status = 400
        /\ req[p].hasSig
        /\ req[p].sig # <<>>
        /\ noMatchingV1(req[p])
        /\ ledger # {}

(***************************************************************************)
(* C3.  Idempotence of the subscription path.  As claimed: when a          *)
(* customer.subscription.updated event is processed again, nothing else    *)
(* having written the ledger since it was last processed, the ledger row   *)
(* of its (fan, creator) stays identical.                                  *)
(***************************************************************************)
reprocessed(p) ==
    /\ req[p].pc = "upsert"
    /\ req'[p].pc = "done"
    /\ req'[p].status = 200
    /\ req[p].body[1] = "customer.subscription.updated"
    /\ lastWrite = req[p].body

rowsOf(table, sub) ==
    {r \in table : r.fan_id = safeStr(sub.fan_id)
                   /\ r.creator_id = safeStr(sub.creator_id)}

C3_Original_RowIdentical ==
    [][\A p \in Procs :
         reprocessed(p) => rowsOf(ledger', req[p].sub) = rowsOf(ledger, req[p].sub)]_vars

\* C3 as amended: the row stays identical in every column except
\* updated_at, which takes the time of the latest processing.
exceptUpdatedAt(rows) == {[r EXCEPT !.updated_at = NoIso] : r \in rows}

C3_RowIdenticalExceptUpdatedAt ==
    [][\A p \in Procs :
         reprocessed(p) =>
            /\ exceptUpdatedAt(rowsOf(ledger', req[p].sub))
                 = exceptUpdatedAt(rowsOf(ledger, req[p].sub))
            /\ Cardinality(rowsOf(ledger', req[p].sub)) = 1]_vars

\* the same updated event was processed twice, the second time later
C3_Witness ==
    /\ \A p \in {1, 2} :
         /\ req[p].status = 200
         /\ req[p].body[1] = "customer.subscription.updated"
         /\ hasKey(req[p].sub)
    /\ req[1].body = req[2].body
    /\ nextId = 2
    /\ \E r \in ledger : r.updated_at = isoOfMillis(1000)

(***************************************************************************)
(* C9.  Fail-safe on unknown status: a row written by the subscription     *)
(* path for a subject whose status is missing or not in the status table   *)
(* (in any case) and whose cancel_at_period_end is false has               *)
(* is_active = FALSE.                                                      *)
(***************************************************************************)
lastSubject == JSONparse(lastWrite).object

writtenRows ==
    IF lastWrite = <<>> THEN {}
    ELSE rowsOf(ledger, lastSubject)

C9_UnknownStatusNeverActive ==
    \A r \in writtenRows :
        (toLowerCase(lastSubject.status) \notin StatusTable
           /\ ~lastSubject.cancel_at_period_end)
        => r.is_active = FALSE

(***************************************************************************)
(* C10.  Grace period: a row written by the subscription path for a        *)
(* subject with cancel_at_period_end = true and a current_period_end later *)
(* than the time of the write has is_active = TRUE and status "canceled",  *)
(* whatever the subject's status.                                          *)
(***************************************************************************)
C10_GracePeriod ==
    \A r \in writtenRows :
        (lastSubject.cancel_at_period_end
           /\ lastSubject.current_period_end * 1000 > r.updated_at[2])
        => (r.is_active = TRUE /\ r.status = "canceled")

\* written for a subject that the provider reports as incomplete
C10_Witness ==
    \E r \in writtenRows :
        /\ lastSubject.cancel_at_period_end
        /\ lastSubject.status = "incomplete"
        /\ lastSubject.current_period_end * 1000 > now
        /\ now > 0
        /\ r.updated_at = isoOfMillis(now)
        /\ r.is_active

(***************************************************************************)
(* C4.  In every reachable state the ledger holds at most one row per      *)
(* (fan id, creator id) pair.                                              *)
(***************************************************************************)
sameKey(r1, r2) == r1.fan_id = r2.fan_id /\ r1.creator_id = r2.creator_id

C4_OneRowPerPair ==
    \A r1 \in ledger : \A r2 \in ledger : sameKey(r1, r2) => r1 = r2

\* a request that ran the upsert and was answered 200
upserted(p) == req[p].status = 200 /\ hasKey(req[p].sub)

\* two requests have upserted the same pair from different subscriptions
C4_Witness ==
    \E p \in Procs : \E q \in Procs :
        /\ upserted(p) /\ upserted(q)
        /\ req[p].sub.id # req[q].sub.id
        /\ sameKey(req[p].sub, req[q].sub)
        /\ \E r \in ledger : sameKey(r, req[p].sub)

(***************************************************************************)
(* C5.  Duplicate delivery of a checkout.session.completed event: when two *)
(* or more requests for the same event have been answered 200, in any      *)
(* interleaving of their calls, having read the same state of the          *)
(* subscription with the session's fan and creator on it, and no other     *)
(* event was written after them, the ledger holds exactly one row for the  *)
(* pair, with status, is_active, current_period_end and provider ids as a  *)
(* single delivery writes them.                                            *)
(***************************************************************************)
deliveriesOf(b) == {p \in Procs : req[p].body = b /\ req[p].hasSig}

C5_DuplicateCheckout ==
    \A b \in events :
        (b[1] = "checkout.session.completed" /\ b[4] # "" /\ b[5] # "") =>
        LET D == deliveriesOf(b)
            W == {p \in D : hasKey(req[p].sub)}
        IN (/\ Cardinality(D) >= 2
            /\ \A p \in D : req[p].status = 200
            /\ W # {}
            /\ \A p \in W : \A q \in W : req[p].sub = req[q].sub
            /\ \A p \in W : req[p].sub.fan_id = b[4] /\ req[p].sub.creator_id = b[5]
            /\ lastWrite = b)
           => LET sub == req[CHOOSE p \in W : TRUE].sub
                  rows == {r \in ledger : r.fan_id = b[4] /\ r.creator_id = b[5]}
              IN /\ Cardinality(rows) = 1
                 /\ \A r \in rows :
                      /\ r.status = (IF sub.cancel_at_period_end THEN "canceled"
                                     ELSE tableStatus(sub.status))
                      /\ r.is_active = (sub.cancel_at_period_end
                                        \/ tableStatus(sub.status) \in {"active", "past_due"})
                      /\ r.current_period_end = isoOfMillis(sub.current_period_end * 1000)
                      /\ r.stripe_customer_id = sub.customer
                      /\ r.stripe_subscription_id = b[3]

\* both deliveries of one checkout event ran the upsert
C5_Witness ==
    \E b \in events :
        /\ b[1] = "checkout.session.completed"
        /\ Cardinality(deliveriesOf(b)) = 2
        /\ \A p \in deliveriesOf(b) : upserted(p) /\ req[p].patch = "ok"
        /\ lastWrite = b
        /\ Cardinality(ledger) = 1

(***************************************************************************)
(* C6.  The upsert is one statement of the store: the status, is_active,   *)
(* current_period_end and provider ids of every ledger row are those       *)
(* written by one single request that ran the subscription path (with      *)
(* status and is_active overwritten if the row was then cancelled by a     *)
(* subscription-deleted event), never a mix of two requests' values.       *)
(***************************************************************************)
cancelled(r) ==
    \E q \in Procs :
        /\ req[q].status = 200
        /\ req[q].body[1] = "customer.subscription.deleted"
        /\ req[q].body[2] = r.stripe_subscription_id

C6_RowFromOneRequest ==
    \A r \in ledger :
        \E p \in Procs :
            /\ upserted(p)
            /\ sameKey(r, req[p].sub)
            /\ LET w == billing(rowFromStripeSubscription(req[p].sub))
               IN \/ billing(r) = w
                  \/ /\ cancelled(r)
                     /\ billing(r) = [w EXCEPT !.status = "canceled",
                                               !.is_active = FALSE]

\* two requests have upserted the same pair with different values
C6_Witness ==
    \E p \in Procs : \E q \in Procs :
        /\ upserted(p) /\ upserted(q)
        /\ sameKey(req[p].sub, req[q].sub)
        /\ req[p].sub.status # req[q].sub.status
        /\ req[p].sub.current_period_end # req[q].sub.current_period_end

(***************************************************************************)
(* C7.  Once every event the provider emitted about a subscription has     *)
(* been processed successfully, in whatever order and however often, the   *)
(* row's status and is_active are those derived from the provider's        *)
(* current state of the subscription.                                      *)
(***************************************************************************)
C7_ReflectsProviderState ==
    \A s \in SubIds :
        LET about == {b \in events : b[1] \in SubTypes /\ b[2] = s}
            sub == stripeSubs[s]
        IN (/\ about # {}
            /\ events = about
            /\ \A p \in Procs : req[p].pc \in {"idle", "done"}
            /\ \A p \in Procs : req[p].pc = "done" => req[p].status = 200
            /\ \A b \in about : \E p \in Procs : req[p].body = b)
           => \A r \in rowsOf(ledger, sub) :
                IF sub.status = "canceled"
                THEN r.status = "canceled" /\ r.is_active = FALSE
                ELSE /\ r.status = rowFromStripeSubscription(sub).status
                     /\ r.is_active = rowFromStripeSubscription(sub).is_active

(***************************************************************************)
(* C11.  Missing correlation metadata.  When a request with a valid        *)
(* signature resolves its subscription (the event's object for created and *)
(* updated, the re-fetched subscription for invoice-paid and checkout) and *)
(* that subscription has no fan id or no creator id in its metadata, the   *)
(* step that resolves it ends the request with 200, never 5xx, and leaves  *)
(* the ledger as it was: no row created, no row modified.                  *)
(***************************************************************************)
blank(x) == x = "" \/ x = " "

noMetadata(sub) == blank(sub.fan_id) \/ blank(sub.creator_id)

\* the step of p in which its subscription becomes known, without metadata
resolvesNoMetadata(p) ==
    LET type == req'[p].body[1]
    IN /\ req'[p].hasSig
       /\ req'[p].failed = "none"
       /\ \/ /\ req[p].pc = "idle"
             /\ req'[p].pc # "idle"
             /\ req'[p].status # 400
             /\ type \in {"customer.subscription.created",
                          "customer.subscription.updated"}
             /\ noMetadata(JSONparse(req'[p].body).object)
          \/ /\ req[p].pc = "sub_get"
             /\ req'[p].pc # "sub_get"
             /\ type \in InvoiceTypes \cup {"checkout.session.completed"}
             /\ noMetadata(req'[p].sub)

C11_MissingMetadataNoOp ==
    [][\A p \in Procs :
         resolvesNoMetadata(p) =>
            /\ req'[p].pc = "done"
            /\ req'[p].status = 200
            /\ ledger' = ledger]_vars

\* a checkout request found its subscription without metadata and was
\* answered 200, the ledger holding another request's row
C11_Witness ==
    \E p \in Procs :
        /\ req[p].pc = "done"
        /\ req[p].body[1] = "checkout.session.completed"
        /\ req[p].status = 200
        /\ req[p].sub.id = "sub_2"
        /\ req[p].sub.creator_id = "C1"
        /\ noMetadata(req[p].sub)
        /\ ledger # {}

(***************************************************************************)
(* C12.  A request with a valid signature and a parseable body whose event *)
(* kind is none of the handled kinds is answered 200 with body "ok" in the *)
(* step that receives it: the request ends there, so it calls neither the  *)
(* store nor the provider, and ledger, profiles, entitlements and the      *)
(* provider's subscriptions are unchanged.                                 *)
(***************************************************************************)
handledKinds ==
    {"account.updated", "checkout.session.completed"} \cup SubTypes \cup InvoiceTypes

\* the step in which p is received, verified
receivedVerified(p) ==
    /\ req[p].pc = "idle"
    /\ req'[p].pc # "idle"
    /\ req'[p].hasSig
    /\ ~noMatchingV1(req'[p])

C12_UnknownKindIgnored ==
    [][\A p \in Procs :
         (/\ receivedVerified(p)
          /\ req'[p].body # NotJsonBody
          /\ req'[p].body[1] \notin handledKinds)
         => /\ req'[p].pc = "done"
            /\ req'[p].status = 200
            /\ req'[p].text = "ok"
            /\ UNCHANGED <<ledger, profiles, entitlements, stripeSubs>>]_vars

\* an event of a kind next to the handled ones was acknowledged
C12_Witness ==
    \E p \in Procs :
        /\ req[p].pc = "done"
        /\ req[p].hasSig
        /\ ~noMatchingV1(req[p])
        /\ req[p].body = <<"customer.subscription.paused">>
        /\ req[p].status = 200
        /\ req[p].text = "ok"

(***************************************************************************)
(* C13.  A request with a valid signature and a parseable body is never    *)
(* answered 4xx: it is answered 200 when none of its store calls and no    *)
(* provider re-fetch failed, whatever the event kind and whatever the      *)
(* payload lacks, and 500 only when such a call failed.  A failed metadata *)
(* patch-back is not such a call.                                          *)
(***************************************************************************)
StoreAndRefetchCalls ==
    {"stripeGET", "upsert", "cancel", "profiles GET", "profiles PATCH",
     "entitlements POST"}

answeredVerified(p) ==
    /\ req[p].pc = "done"
    /\ req[p].hasSig
    /\ ~noMatchingV1(req[p])

C13_OkUnlessCallFailed ==
    \A p \in Procs :
        (answeredVerified(p) /\ req[p].body # NotJsonBody) =>
            /\ req[p].status \in {200, 500}
            /\ req[p].failed = "none" => req[p].status = 200
            /\ req[p].status = 500 => req[p].failed \in StoreAndRefetchCalls

\* an account event for an account that no profile has was answered 200
\* after both lookups
C13_Witness ==
    \E p \in Procs :
        /\ answeredVerified(p)
        /\ req[p].body = <<"account.updated", "acct_x", "true", "true">>
        /\ req[p].status = 200
        /\ req[p].failed = "none"

(***************************************************************************)
(* C14.  A request whose signature verifies but whose body is not JSON is  *)
(* answered 400, not 500.                                                  *)
(***************************************************************************)
C14_MalformedBodyIs400 ==
    \A p \in Procs :
        (answeredVerified(p) /\ req[p].body = NotJsonBody) => req[p].status = 400

(***************************************************************************)
(* C15.  On the invoice-paid and checkout paths a failed re-fetch of the   *)
(* subscription ends the request with 500 in that step: the request never  *)
(* reaches the upsert, and the step leaves the ledger as it was.           *)
(***************************************************************************)
C15_RefetchFailureIs500 ==
    [][\A p \in Procs :
         req'[p].failed = "stripeGET" =>
            /\ req'[p].pc = "done"
            /\ req'[p].status = 500
            /\ req'[p].sub = NoObject
            /\ req[p].failed # "stripeGET" =>
                 (req[p].pc = "sub_get" /\ ledger' = ledger)]_vars

\* an invoice-paid request failed on its re-fetch while another request's
\* row was in the ledger
C15_Witness ==
    \E p \in Procs :
        /\ req[p].pc = "done"
        /\ req[p].body[1] = "invoice.paid"
        /\ req[p].failed = "stripeGET"
        /\ req[p].status = 500
        /\ ledger # {}

(***************************************************************************)
(* C16.  On the checkout path a failed metadata patch-back is not fatal:   *)
(* the request goes on to the re-fetch; unless the re-fetch fails it holds *)
(* the re-fetched subscription, and when no later call failed it is        *)
(* answered 200, the subscription path having written the row of the       *)
(* subscription's (fan, creator) if its metadata names one.                *)
(***************************************************************************)
C16_PatchFailureNotFatal ==
    \A p \in Procs :
        req[p].patch = "failed" =>
            /\ req[p].pc \in {"sub_get", "upsert", "done"}
            /\ req[p].pc = "done" =>
                 \/ req[p].failed = "stripeGET"
                 \/ /\ req[p].sub.id = req[p].body[3]
                    /\ req[p].failed = "none" =>
                         /\ req[p].status = 200
                         /\ ~noMetadata(req[p].sub) =>
                              \E r \in ledger : sameKey(r, req[p].sub)

\* a checkout request whose patch-back failed has upserted and was answered 200
C16_Witness ==
    \E p \in Procs :
        /\ req[p].patch = "failed"
        /\ req[p].pc = "done"
        /\ req[p].status = 200
        /\ \E r \in ledger :
             /\ sameKey(r, req[p].sub)
             /\ r.stripe_subscription_id = req[p].body[3]

(***************************************************************************)
(* C17.  When the store rejects the primary write of a request (the        *)
(* subscription upsert, the cancellation patch or the profile patch of the *)
(* account path), the request is answered 500 and the write has changed    *)
(* neither the ledger nor the profiles.                                    *)
(***************************************************************************)
PrimaryWrites == {"upsert", "cancel", "profiles PATCH"}

C17_PrimaryWriteFailureIs500 ==
    [][\A p \in Procs :
         (req[p].failed = "none" /\ req'[p].failed \in PrimaryWrites) =>
            /\ req'[p].pc = "done"
            /\ req'[p].status = 500
            /\ UNCHANGED <<ledger, profiles>>]_vars

\* the profile patch of an account event was rejected
C17_Witness ==
    \E p \in Procs :
        /\ req[p].pc = "done"
        /\ req[p].body[1] = "account.updated"
        /\ req[p].user = "C2"
        /\ req[p].failed = "profiles PATCH"
        /\ req[p].status = 500

(***************************************************************************)
(* C18.  On the account path a store failure of the entitlement write,     *)
(* the profile patch having succeeded, does not fail the acknowledgement:  *)
(* the request is answered 200.                                            *)
(***************************************************************************)
C18_EntitlementFailureAcknowledged ==
    \A p \in Procs :
        (/\ req[p].pc = "done"
         /\ req[p].failed = "entitlements POST"
         /\ profiles[req[p].user].stripe_onboarding_status = "completed")
        => req[p].status = 200

(***************************************************************************)
(* C19.  Every request that was received is eventually answered, even     *)
(* when a call to the provider or to the store is never answered.          *)
(***************************************************************************)
C19_EveryRequestAnswered ==
    \A p \in Procs : (req[p].pc # "idle") ~> (req[p].pc = "done")

(***************************************************************************)
(* C20.  The step that processes a customer.subscription.deleted event for *)
(* subscription S creates and deletes no row; on every row whose stored    *)
(* provider subscription id is S it sets status = canceled and             *)
(* is_active = FALSE and leaves fan, creator, current_period_end and the   *)
(* provider ids as they were; every other row, one with no provider        *)
(* subscription id included, stays as it was.                              *)
(***************************************************************************)
cancelsIn(p) ==
    /\ req[p].pc = "cancel"
    /\ req'[p].pc = "done"
    /\ req'[p].status = 200

C20_CancelFrame ==
    [][\A p \in Procs :
         cancelsIn(p) =>
            LET S == req[p].body[2]
            IN /\ Cardinality(ledger') = Cardinality(ledger)
               /\ \A r \in ledger :
                    \E r2 \in ledger' :
                       /\ r2.id = r.id
                       /\ IF r.stripe_subscription_id = S
                          THEN /\ r2.status = "canceled"
                               /\ r2.is_active = FALSE
                               /\ r2.fan_id = r.fan_id
                               /\ r2.creator_id = r.creator_id
                               /\ r2.current_period_end = r.current_period_end
                               /\ r2.stripe_customer_id = r.stripe_customer_id
                               /\ r2.stripe_subscription_id = S
                          ELSE r2 = r]_vars

\* the deleted event of sub_1 was processed on a ledger of four rows: both
\* rows of sub_1 are cancelled with their period end kept, the row of sub_2
\* and the row with no subscription id are as they were
C20_Witness ==
    /\ \E p \in Procs :
         /\ req[p].pc = "done"
         /\ req[p].status = 200
         /\ req[p].body[1] = "customer.subscription.deleted"
         /\ req[p].body[2] = "sub_1"
    /\ now > 0
    /\ Cardinality(ledger) = 4
    /\ \A r \in ledger :
         IF r.stripe_subscription_id = "sub_1"
         THEN /\ r.status = "canceled"
              /\ ~r.is_active
              /\ r.current_period_end = isoOfMillis(1000)
              /\ r.updated_at = isoOfMillis(now)
         ELSE r \in CancelRows

(***************************************************************************)
(* C21.  Scenario A.  A checkout.session.completed request in subscription *)
(* mode with session metadata (F, C), all of whose calls succeeded, that   *)
(* referenced a subscription in provider status active, not scheduled to   *)
(* cancel, with current_period_end = T, leaves exactly one ledger row      *)
(* (F, C), with status active, is_active TRUE, current_period_end T and    *)
(* the referenced provider subscription id.                                *)
(***************************************************************************)
checkoutSucceeded(p) ==
    /\ answeredVerified(p)
    /\ req[p].body[1] = "checkout.session.completed"
    /\ req[p].body[2] = "subscription"
    /\ req[p].body[3] \in SubIds
    /\ ~blank(req[p].body[4])
    /\ ~blank(req[p].body[5])
    /\ req[p].patch = "ok"
    /\ req[p].failed = "none"

C21_CheckoutCreatesActiveRow ==
    \A p \in Procs :
        (/\ checkoutSucceeded(p)
         /\ stripeSubs[req[p].body[3]].status = "active"
         /\ ~stripeSubs[req[p].body[3]].cancel_at_period_end)
        => LET b == req[p].body
               T == stripeSubs[b[3]].current_period_end
               rows == {r \in ledger : r.fan_id = b[4] /\ r.creator_id = b[5]}
           IN /\ req[p].status = 200
              /\ Cardinality(rows) = 1
              /\ \A r \in rows :
                   /\ r.status = "active"
                   /\ r.is_active = TRUE
                   /\ r.current_period_end = isoOfMillis(T * 1000)
                   /\ r.stripe_subscription_id = b[3]

\* the checkout of fan F2 for sub_2, whose metadata named no fan before
C21_Witness ==
    \E p \in Procs :
        /\ checkoutSucceeded(p)
        /\ req[p].body[3] = "sub_2"
        /\ req[p].body[4] = "F2"
        /\ \E r \in ledger :
             /\ r.fan_id = "F2"
             /\ r.creator_id = "C1"
             /\ r.current_period_end = isoOfMillis(2000)

(***************************************************************************)
(* C22.  Once a row's provider subscription id is set, a webhook request   *)
(* changes it only when it processes a checkout.session.completed or a     *)
(* customer.subscription.created event: an updated or an invoice-paid      *)
(* event never replaces the stored id.                                     *)
(***************************************************************************)
C22_SubscriptionIdStable ==
    [][\A r \in ledger : \A r2 \in ledger' :
         (/\ r2.id = r.id
          /\ r.stripe_subscription_id # NULL
          /\ r2.stripe_subscription_id # r.stripe_subscription_id)
         => \E p \in Procs :
              /\ req[p].pc = "upsert"
              /\ req'[p].pc = "done"
              /\ req[p].body[1] \in {"checkout.session.completed",
                                     "customer.subscription.created"}]_vars

InternalStatuses == {"active", "past_due", "canceled", "expired"}

C24_StatusInVocabulary ==
    \A r \in ledger : r.status \in InternalStatuses

(***************************************************************************)
(* C28.  The webhook is the sole writer of the billing fields: a step that *)
(* changes status, is_active, current_period_end or a provider id of an    *)
(* existing row is a step of a webhook request, its upsert or its          *)
(* cancellation patch.                                                     *)
(***************************************************************************)
C28_WebhookSoleWriter ==
    [][\A r \in ledger : \A r2 \in ledger' :
         (r2.id = r.id /\ billing(r2) # billing(r))
         => \E p \in Procs :
              /\ req[p].hasSig
              /\ req[p].pc \in {"upsert", "cancel"}
              /\ req'[p].pc = "done"]_vars

(***************************************************************************)
(* C26.  Scenario C.  An account.updated event for the account of creator  *)
(* C in which charges_enabled and payouts_enabled are not both true, once  *)
(* its profile patch has succeeded, has stored the two flags as received   *)
(* and set C's onboarding status to started; the request ends there with   *)
(* 200 and records no payout entitlement.                                  *)
(***************************************************************************)
patchesProfile(p) ==
    /\ req[p].pc = "acct_patch"
    /\ req'[p].pc # "acct_patch"
    /\ req'[p].failed = "none"

C26_NotFullyEnabled ==
    [][\A p \in Procs :
         (patchesProfile(p) /\ ~(req[p].body[3] = "true" /\ req[p].body[4] = "true"))
         => LET C == req[p].user
            IN /\ profiles'[C].charges_enabled = (req[p].body[3] = "true")
               /\ profiles'[C].payouts_enabled = (req[p].body[4] = "true")
               /\ profiles'[C].stripe_onboarding_status = "started"
               /\ req'[p].pc = "done"
               /\ req'[p].status = 200
               /\ entitlements' = entitlements]_vars

\* charges enabled and payouts not, for the account of C2 (found by its
\* stripe_account_id)
C26_Witness ==
    /\ \E p \in Procs :
         /\ req[p].pc = "done"
         /\ req[p].body = <<"account.updated", "acct_2", "true", "false">>
         /\ req[p].status = 200
    /\ profiles["C2"].charges_enabled
    /\ ~profiles["C2"].payouts_enabled
    /\ profiles["C2"].stripe_onboarding_status = "started"
    /\ entitlements = {}

(***************************************************************************)
(* C27.  The payout entitlement is granted on the transition into fully    *)
(* enabled only: a request goes on from its profile patch to the           *)
(* entitlement write only if the profile was not fully enabled before the  *)
(* patch.                                                                  *)
(***************************************************************************)
fullyEnabled(profile) ==
    /\ profile.charges_enabled
    /\ profile.payouts_enabled
    /\ profile.stripe_onboarding_status = "completed"

C27_GrantOnTransitionOnly ==
    [][\A p \in Procs :
         (req[p].pc = "acct_patch" /\ req'[p].pc = "acct_grant")
         => ~fullyEnabled(profiles[req[p].user])]_vars

(***************************************************************************)
(* C29.  The row written by the subscription path has is_active = TRUE if  *)
(* and only if the subject's cancel_at_period_end is true or its provider  *)
(* status is active, trialing, past_due, unpaid, paused or not a status of *)
(* the table (missing included); it has is_active = FALSE exactly when     *)
(* cancel_at_period_end is false and the status is canceled, incomplete or *)
(* incomplete_expired.                                                     *)
(***************************************************************************)
C29_IsActiveRule ==
    \A r \in writtenRows :
        LET st == toLowerCase(lastSubject.status)
            cape == lastSubject.cancel_at_period_end
        IN /\ r.is_active = TRUE <=>
                \/ cape
                \/ st \in {"active", "trialing", "past_due", "unpaid", "paused"}
                \/ st \notin StatusTable
           /\ r.is_active = FALSE <=>
                /\ ~cape
                /\ st \in {"canceled", "incomplete", "incomplete_expired"}

\* written for a subject that is unpaid and not scheduled to cancel
C29_Witness ==
    \E r \in writtenRows :
        /\ lastSubject.status = "unpaid"
        /\ ~lastSubject.cancel_at_period_end
        /\ r.is_active
        /\ r.status = "past_due"

(***************************************************************************)
(* C30.  Cancellation is sticky: once a customer.subscription.deleted      *)
(* event for subscription S has been processed, the processing of a        *)
(* customer.subscription.created or updated event about S does not turn    *)
(* is_active of a row of S from FALSE to TRUE.                             *)
(***************************************************************************)
deletedReconciled(S) ==
    \E q \in Procs :
        /\ req[q].pc = "done"
        /\ req[q].status = 200
        /\ req[q].body[1] = "customer.subscription.deleted"
        /\ req[q].body[2] = S

C30_CancellationSticky ==
    [][\A p \in Procs :
         (/\ req[p].pc = "upsert"
          /\ req'[p].pc = "done"
          /\ req[p].body[1] \in {"customer.subscription.created",
                                 "customer.subscription.updated"}
          /\ deletedReconciled(req[p].body[2]))
         => \A r \in ledger : \A r2 \in ledger' :
              (/\ r2.id = r.id
               /\ r.stripe_subscription_id = req[p].body[2]
               /\ r.status = "canceled"
               /\ ~r.is_active)
              => ~r2.is_active]_vars

(***************************************************************************)
(* The creator's calls: connect-status reads the connected account from    *)
(* the provider and stores what it saw, connect-update opens (or reopens)  *)
(* onboarding.  Each awaited call is one step; the profile is read in one  *)
(* step and written in a later one.                                        *)
(***************************************************************************)
\* from("profiles").update(columns).eq("user_id", userId)
updateProfile(table, userId, columns) ==
    [table EXCEPT ![userId] =
       [f \in DOMAIN table[userId] |->
          IF f \in DOMAIN columns THEN columns[f] ELSE table[userId][f]]]

\* connect-status/index.ts 66-71: the baseline of a profile with no account
baselineColumns ==
    [stripe_onboarding_status |-> "not_started", payouts_enabled |-> FALSE,
     charges_enabled |-> FALSE, stripe_onboarded |-> FALSE]

\* connect-status/index.ts 92
ready(acc) ==
    acc.details_submitted /\ acc.charges_enabled /\ acc.payouts_enabled

\* connect-status/index.ts 100-109: the columns written
statusColumns(acc) ==
    [stripe_onboarding_status |-> IF ready(acc) THEN "complete" ELSE "pending",
     payouts_enabled |-> acc.payouts_enabled,
     charges_enabled |-> acc.charges_enabled,
     stripe_onboarded |-> ready(acc)]

\* connect-update/index.ts 81-87: the columns saveConnectAccount writes
connectColumns(newId) ==
    [stripe_connect_account_id |-> newId, stripe_onboarding_status |-> "pending",
     charges_enabled |-> FALSE, payouts_enabled |-> FALSE,
     stripe_onboarded |-> FALSE]

\* the accounts the provider answers with: <<details_submitted,
\* charges_enabled, payouts_enabled>>
AccountStates ==
    {<<TRUE, TRUE, TRUE>>, <<TRUE, FALSE, FALSE>>, <<TRUE, TRUE, FALSE>>,
     <<FALSE, TRUE, TRUE>>, <<FALSE, FALSE, FALSE>>}

\* accountId.startsWith("acct_")
startsWithAcct(accountId) ==
    accountId \in {"acct_1", "acct_2", "acct_x", "acct_7", "acct_8", "acct_9"}

\* the id stripe.accounts.create gives the account request p creates
createdAccount(p) ==
    CASE p = 1 -> "acct_7"
      [] p = 2 -> "acct_8"
      [] OTHER -> "acct_9"

ConnectFunctions == {"connect-status", "connect-update"}

\* the users whose session the bearer token carries, "" for none
ConnectUsers == {"C1", "C2", ""}

\* connect-status/index.ts 38-48, connect-update/index.ts 38-50: a call
\* arrives and its session is validated
ConnectCall(p) ==
    /\ req[p].pc = "idle"
    /\ \A q \in Procs : q < p => req[q].pc # "idle"
    /\ \E f \in ConnectFunctions, userId \in ConnectUsers :
         LET r == [IdleReq EXCEPT !.body = <<f, userId>>, !.user = userId]
         IN req' = [req EXCEPT ![p] =
                      IF userId = "" THEN json(r, 401)
                      ELSE [r EXCEPT !.pc = "conn_load"]]
    /\ UNCHANGED <<ledger, nextId, profiles, entitlements, stripeSubs, events, now,
                   lastWrite, call, observed, withdrawals, transfers>>

\* connect-status/index.ts 51-83, connect-update/index.ts 63-75 and 94, 107:
\* load the profile and branch on its stripe_connect_account_id
LoadProfile(p) ==
    /\ req[p].pc = "conn_load"
    /\ \E ok \in BOOLEAN :
         LET accountId == profiles[req[p].user].stripe_connect_account_id
         IN req' = [req EXCEPT ![p] =
                      IF ~ok THEN json([@ EXCEPT !.failed = "profiles select"], 500)
                      ELSE IF fn(p) = "connect-status"
                      THEN IF accountId = NULL THEN [@ EXCEPT !.pc = "cs_baseline"]
                           ELSE IF ~startsWithAcct(accountId) THEN json(@, 400)
                           ELSE [@ EXCEPT !.pc = "cs_retrieve", !.rowSub = accountId]
                      ELSE IF accountId = NULL THEN [@ EXCEPT !.pc = "cu_create"]
                           ELSE [@ EXCEPT !.pc = "cu_check", !.rowSub = accountId]]
    /\ UNCHANGED <<ledger, nextId, profiles, entitlements, stripeSubs, events, now,
                   lastWrite, call, observed, withdrawals, transfers>>

\* connect-status/index.ts 63-79: persist the baseline; the result of the
\* update is not looked at
WriteBaseline(p) ==
    /\ req[p].pc = "cs_baseline"
    /\ \E ok \in BOOLEAN :
         IF ok
         THEN /\ profiles' = updateProfile(profiles, req[p].user, baselineColumns)
              /\ req' = [req EXCEPT ![p] = json(@, 200)]
         ELSE /\ req' = [req EXCEPT ![p] =
                           json([@ EXCEPT !.failed = "profiles update"], 200)]
              /\ UNCHANGED profiles
    /\ UNCHANGED <<ledger, nextId, entitlements, stripeSubs, events, now,
                   lastWrite, call, observed, withdrawals, transfers>>

\* connect-status/index.ts 86-90: stripe.accounts.retrieve; a failure throws
\* to the catch
RetrieveAccount(p) ==
    /\ req[p].pc = "cs_retrieve"
    /\ \E ok \in BOOLEAN :
         IF ok
         THEN \E a \in AccountStates :
                LET acc == [NoObject EXCEPT !.id = req[p].rowSub,
                                            !.details_submitted = a[1],
                                            !.charges_enabled = a[2],
                                            !.payouts_enabled = a[3]]
                IN /\ req' = [req EXCEPT ![p] = [@ EXCEPT !.pc = "cs_write",
                                                          !.sub = acc]]
                   /\ observed' = sees(req[p].user, acc)
         ELSE /\ req' = [req EXCEPT ![p] =
                           json([@ EXCEPT !.failed = "accounts.retrieve"], 500)]
              /\ UNCHANGED observed
    /\ UNCHANGED <<ledger, nextId, profiles, entitlements, stripeSubs, events, now,
                   lastWrite, call, withdrawals, transfers>>

\* connect-status/index.ts 100-146: persist what was retrieved; the answer
\* is 200 even when the update fails
WriteStatus(p) ==
    /\ req[p].pc = "cs_write"
    /\ \E ok \in BOOLEAN :
         IF ok
         THEN /\ profiles' = updateProfile(profiles, req[p].user,
                                           statusColumns(req[p].sub))
              /\ req' = [req EXCEPT ![p] = json(@, 200)]
         ELSE /\ req' = [req EXCEPT ![p] =
                           json([@ EXCEPT !.failed = "profiles update"], 200)]
              /\ UNCHANGED profiles
    /\ UNCHANGED <<ledger, nextId, entitlements, stripeSubs, events, now,
                   lastWrite, call, observed, withdrawals, transfers>>

\* connect-update/index.ts 108-111: does the saved account exist at the
\* provider? the account retrieved is not looked at
CheckAccount(p) ==
    /\ req[p].pc = "cu_check"
    /\ \E ok \in BOOLEAN :
         req' = [req EXCEPT ![p] =
                   IF ok THEN [@ EXCEPT !.pc = "cu_pending"]
                   ELSE [@ EXCEPT !.pc = "cu_recreate"]]
    /\ UNCHANGED <<ledger, nextId, profiles, entitlements, stripeSubs, events, now,
                   lastWrite, call, observed, withdrawals, transfers>>

\* connect-update/index.ts 95-105 and 112-122: stripe.accounts.create
CreateAccount(p) ==
    /\ req[p].pc \in {"cu_create", "cu_recreate"}
    /\ \E ok \in BOOLEAN :
         req' = [req EXCEPT ![p] =
                   IF ok
                   THEN [@ EXCEPT !.pc = IF @ = "cu_create" THEN "cu_save"
                                         ELSE "cu_resave",
                                  !.rowSub = createdAccount(p)]
                   ELSE json([@ EXCEPT !.failed = "accounts.create"], 500)]
    /\ UNCHANGED <<ledger, nextId, profiles, entitlements, stripeSubs, events, now,
                   lastWrite, call, observed, withdrawals, transfers>>

\* connect-update/index.ts 78-91, called at 106 and 123
saveConnectAccount(p) ==
    /\ req[p].pc \in {"cu_save", "cu_resave"}
    /\ \E ok \in BOOLEAN :
         IF ok
         THEN /\ profiles' = updateProfile(profiles, req[p].user,
                                           connectColumns(req[p].rowSub))
              /\ req' = [req EXCEPT ![p] =
                           [@ EXCEPT !.pc = IF @ = "cu_save" THEN "cu_link"
                                            ELSE "cu_pending"]]
         ELSE /\ req' = [req EXCEPT ![p] =
                           json([@ EXCEPT !.failed = "saveConnectAccount"], 500)]
              /\ UNCHANGED profiles
    /\ UNCHANGED <<ledger, nextId, entitlements, stripeSubs, events, now,
                   lastWrite, call, observed, withdrawals, transfers>>

\* connect-update/index.ts 127-130: the status goes to pending, the flags
\* stay; the result of the update is not looked at
MarkPending(p) ==
    /\ req[p].pc = "cu_pending"
    /\ \E ok \in BOOLEAN :
         IF ok
         THEN /\ profiles' = updateProfile(profiles, req[p].user,
                                           [stripe_onboarding_status |-> "pending"])
              /\ req' = [req EXCEPT ![p] = [@ EXCEPT !.pc = "cu_link"]]
         ELSE /\ req' = [req EXCEPT ![p] = [@ EXCEPT !.pc = "cu_link",
                                                     !.failed = "profiles update"]]
              /\ UNCHANGED profiles
    /\ UNCHANGED <<ledger, nextId, entitlements, stripeSubs, events, now,
                   lastWrite, call, observed, withdrawals, transfers>>

\* connect-update/index.ts 134-153: stripe.accountLinks.create
CreateLink(p) ==
    /\ req[p].pc = "cu_link"
    /\ \E ok \in BOOLEAN :
         req' = [req EXCEPT ![p] =
                   IF ok THEN json(@, 200)
                   ELSE json([@ EXCEPT !.failed = "accountLinks.create"], 500)]
    /\ UNCHANGED <<ledger, nextId, profiles, entitlements, stripeSubs, events, now,
                   lastWrite, call, observed, withdrawals, transfers>>

(***************************************************************************)
(* SpecConnect: account.updated events about the accounts of both          *)
(* creators, delivered in any order and any number of times, interleaved   *)
(* with the creators' connect-status and connect-update calls.             *)
(***************************************************************************)
ConnectBodies ==
    {<<"account.updated", "acct_1", ch, po>> :
        ch \in {"true", "false"}, po \in {"true", "false"}}
    \cup {<<"account.updated", "acct_2", "true", "true">>}

InitConnect ==
    /\ ledger = {}
    /\ nextId = 1
    /\ profiles = InitProfiles
    /\ entitlements = {}
    /\ stripeSubs = InitStripeSubs
    /\ events = ConnectBodies
    /\ now = 0
    /\ req = [p \in Procs |-> IdleReq]
    /\ lastWrite = <<>>
    /\ call = NoCall
    /\ observed = NotObserved
    /\ withdrawals = InitWithdrawals
    /\ transfers = {}

NextConnect ==
    \/ \E p \in Procs : DeliverEvent(p)
    \/ \E p \in Procs : LookupByConnectId(p)
    \/ \E p \in Procs : LookupByAccountId(p)
    \/ \E p \in Procs : PatchProfile(p)
    \/ \E p \in Procs : GrantPayouts(p)
    \/ \E p \in Procs : ConnectCall(p)
    \/ \E p \in Procs : LoadProfile(p)
    \/ \E p \in Procs : WriteBaseline(p)
    \/ \E p \in Procs : RetrieveAccount(p)
    \/ \E p \in Procs : WriteStatus(p)
    \/ \E p \in Procs : CheckAccount(p)
    \/ \E p \in Procs : CreateAccount(p)
    \/ \E p \in Procs : saveConnectAccount(p)
    \/ \E p \in Procs : MarkPending(p)
    \/ \E p \in Procs : CreateLink(p)

SpecConnect == InitConnect /\ [][NextConnect]_vars

(***************************************************************************)
(* C25.  Whatever the interleaving of account.updated events,              *)
(* connect-status calls and connect-update calls, a profile whose          *)
(* onboarding status is complete (or completed) has charges_enabled and    *)
(* payouts_enabled both TRUE in the store, and these stored flags are the  *)
(* flags a function last saw at the provider for that creator.  Stated for *)
(* the states in which every request has been answered and no call has     *)
(* failed, where no write is still to come.                                *)
(***************************************************************************)
onboarded(u) ==
    profiles[u].stripe_onboarding_status \in {"complete", "completed"}

\* no request is in flight and no call of any request has failed
settled ==
    \A p \in Procs : req[p].pc \in {"idle", "done"} /\ req[p].failed = "none"

C25_CompleteOnlyIfEnabledAsObserved ==
    \A u \in Users :
        (settled /\ onboarded(u))
        => /\ profiles[u].charges_enabled
           /\ profiles[u].payouts_enabled
           /\ observed[u] = <<profiles[u].charges_enabled,
                              profiles[u].payouts_enabled>>

\* the half of C25 about the stored flags alone
CompleteHasBothFlags ==
    \A u \in Users :
        onboarded(u) => profiles[u].charges_enabled /\ profiles[u].payouts_enabled

(***************************************************************************)
(* C31.  When the handler has answered 200 to a subscription-mode          *)
(* checkout.session.completed event that names a subscription and whose    *)
(* session metadata carries both fan_id and creator_id, the ledger holds a *)
(* row for that fan and creator, whether the metadata patch succeeded or   *)
(* failed and whether or not the subscription carried the metadata.        *)
(***************************************************************************)
checkoutWithMetadataAcknowledged(p) ==
    /\ req[p].pc = "done"
    /\ req[p].status = 200
    /\ isJSON(req[p].body)
    /\ req[p].body[1] = "checkout.session.completed"
    /\ safeStr(object(p).mode) = "subscription"
    /\ safeStr(object(p).subscription) # ""
    /\ safeStr(object(p).fan_id) # ""
    /\ safeStr(object(p).creator_id) # ""

C31_CheckoutLeavesRow ==
    \A p \in Procs :
        checkoutWithMetadataAcknowledged(p)
        => \E r \in ledger :
             /\ r.fan_id = safeStr(object(p).fan_id)
             /\ r.creator_id = safeStr(object(p).creator_id)

(***************************************************************************)
(* C32.  After any sequence or interleaving of account.updated events, an  *)
(* active payouts_enabled entitlement exists for a creator only if the     *)
(* creator's profile has charges_enabled and payouts_enabled both TRUE.    *)
(* Stated for the states in which only account.updated events have been    *)
(* received, all of them answered and none with a failed call.             *)
(***************************************************************************)
onlyAccountEvents ==
    \A p \in Procs :
        \/ req[p].pc = "idle"
        \/ /\ req[p].pc = "done"
           /\ req[p].failed = "none"
           /\ req[p].body[1] = "account.updated"

entitled(u) ==
    \E e \in entitlements :
        e.user_id = u /\ e.key = "payouts_enabled" /\ e.status = "active"

C32_EntitledOnlyIfEnabled ==
    \A u \in Users :
        (onlyAccountEvents /\ entitled(u))
        => profiles[u].charges_enabled /\ profiles[u].payouts_enabled

(***************************************************************************)
(* C33.  After any sequence of webhook events, cancel-subscription calls   *)
(* and resume-subscription calls, every ledger row with status active has  *)
(* is_active = TRUE and every row with status expired has                  *)
(* is_active = FALSE.                                                      *)
(***************************************************************************)
C33_StatusAgreesWithIsActive ==
    \A r \in ledger :
        /\ r.status = "active" => r.is_active = TRUE
        /\ r.status = "expired" => r.is_active = FALSE

(***************************************************************************)
(* C34.  A row's cancel_at_period_end follows the provider: the step that  *)
(* completes a successful cancel-subscription leaves the row with          *)
(* cancel_at_period_end = TRUE, the step that completes a successful       *)
(* resume-subscription leaves it FALSE, and so does the webhook's upsert   *)
(* of a subscription whose cancel_at_period_end is FALSE.                  *)
(***************************************************************************)
fanWrote(p, f) ==
    /\ req[p].pc = "fan_write"
    /\ fn(p) = f
    /\ req'[p].pc = "done"
    /\ req'[p].status = 200

webhookUpserted(p) ==
    /\ req[p].pc = "upsert"
    /\ req'[p].pc = "done"
    /\ req'[p].status = 200

C34_CancelFlagFollowsProvider ==
    [][\A p \in Procs :
         /\ fanWrote(p, "cancel-subscription")
            => \A r \in ledger' :
                 r.id = req[p].row => r.cancel_at_period_end = TRUE
         /\ fanWrote(p, "resume-subscription")
            => \A r \in ledger' :
                 r.id = req[p].row => r.cancel_at_period_end = FALSE
         /\ (webhookUpserted(p) /\ ~req[p].sub.cancel_at_period_end)
            => \A r \in ledger' :
                 (/\ r.fan_id = safeStr(req[p].sub.fan_id)
                  /\ r.creator_id = safeStr(req[p].sub.creator_id))
                 => r.cancel_at_period_end = FALSE]_vars

(***************************************************************************)
(* C35.  The steps of a request that carries an account.updated event      *)
(* change no ledger row and no profile other than the one whose            *)
(* stripe_connect_account_id equals the event's account id or, when no     *)
(* profile has it there, the one whose stripe_account_id equals it.  When  *)
(* the account id is empty or no profile has it, the request changes no    *)
(* profile and no entitlement and, no call having failed, is answered 200. *)
(***************************************************************************)
accountOwner(acctId) ==
    IF acctId = "" THEN ""
    ELSE IF \E u \in Users : profiles[u].stripe_connect_account_id = acctId
    THEN CHOOSE u \in Users : profiles[u].stripe_connect_account_id = acctId
    ELSE IF \E u \in Users : profiles[u].stripe_account_id = acctId
    THEN CHOOSE u \in Users : profiles[u].stripe_account_id = acctId
    ELSE ""

\* request p, verified and carrying an account.updated event, takes a step
accountStep(p) ==
    /\ req'[p] # req[p]
    /\ req'[p].hasSig
    /\ ~noMatchingV1(req'[p])
    /\ isJSON(req'[p].body)
    /\ req'[p].body[1] = "account.updated"

C35_AccountUpdatedFrame ==
    [][\A p \in Procs :
         accountStep(p)
         => LET owner == accountOwner(req'[p].body[2])
            IN /\ ledger' = ledger
               /\ \A u \in Users : profiles'[u] # profiles[u] => u = owner
               /\ owner = ""
                  => /\ profiles' = profiles
                     /\ entitlements' = entitlements
                     /\ (req'[p].pc = "done" /\ req'[p].failed = "none")
                        => req'[p].status = 200]_vars

C35_Witness ==
    /\ \E p \in Procs :
         /\ req[p].pc = "done"
         /\ req[p].status = 200
         /\ req[p].body = <<"account.updated", "acct_1", "true", "true">>
    /\ profiles["C1"].stripe_onboarding_status = "completed"
    /\ profiles["C2"] = InitProfiles["C2"]
    /\ profiles["C3"] = InitProfiles["C3"]
    /\ ledger = {}

(***************************************************************************)
(* C36.  cancel-subscription and resume-subscription act for the           *)
(* authenticated fan only.  A call without a valid session is answered 401 *)
(* and changes neither the ledger nor the provider.  Every step of a call  *)
(* of fan F selects only a row whose fan_id is F, changes only that row,   *)
(* and changes only the provider subscription stored on that row.          *)
(***************************************************************************)
\* request p, a fan's call, takes a step
fanStep(p) ==
    /\ req'[p] # req[p]
    /\ Len(req'[p].body) = 4
    /\ req'[p].body[1] \in FanFunctions

C36_OnlyOwnRows ==
    [][\A p \in Procs :
         fanStep(p)
         => LET fanId == req'[p].body[2]
            IN /\ fanId = ""
                  => /\ req'[p].pc = "done"
                     /\ req'[p].status = 401
                     /\ ledger' = ledger
                     /\ stripeSubs' = stripeSubs
               /\ req'[p].row # 0
                  => \E r \in ledger : r.id = req'[p].row /\ r.fan_id = fanId
               /\ \A r \in ledger : \A r2 \in ledger' :
                    (r2.id = r.id /\ r2 # r)
                    => r.fan_id = fanId /\ r.id = req[p].row
               /\ \A s \in SubIds :
                    stripeSubs'[s] # stripeSubs[s]
                    => \E r \in ledger :
                         /\ r.id = req[p].row
                         /\ r.fan_id = fanId
                         /\ r.stripe_subscription_id = s]_vars

C36_Witness ==
    /\ \E p \in Procs :
         /\ req[p].pc = "done"
         /\ req[p].status = 200
         /\ req[p].body = <<"cancel-subscription", "F2", "C1", "">>
    /\ stripeSubs["sub_2"].cancel_at_period_end
    /\ \E r \in ledger : r.fan_id = "F2" /\ r.cancel_at_period_end
    /\ \E r \in ledger :
         /\ r.fan_id = "F1"
         /\ ~r.cancel_at_period_end
         /\ r.updated_at = isoOfMillis(0)

(***************************************************************************)
(* C37.  cancel-subscription keeps access until the period end.  When the  *)
(* subscription retrieved is already scheduled to cancel, the call goes on *)
(* to the row without a provider update; otherwise its provider update     *)
(* leaves the subscription with cancel_at_period_end = TRUE.  The step     *)
(* that completes a successful call leaves the row with                    *)
(* cancel_at_period_end = TRUE and with is_active = TRUE exactly when the  *)
(* row's current_period_end is null or later than the clock, the           *)
(* subscription the provider last answered with being scheduled to cancel. *)
(***************************************************************************)
cancelling(p) ==
    /\ req'[p] # req[p]
    /\ Len(req[p].body) = 4
    /\ req[p].body[1] = "cancel-subscription"

C37_CancelKeepsAccess ==
    [][\A p \in Procs :
         cancelling(p)
         => /\ (/\ req[p].pc = "fan_retrieve"
                /\ req'[p].failed = "none"
                /\ stripeSubs[req[p].rowSub].cancel_at_period_end)
               => /\ req'[p].pc = "fan_write"
                  /\ stripeSubs' = stripeSubs
                  /\ events' = events
            /\ (req[p].pc = "fan_update" /\ req'[p].failed = "none")
               => stripeSubs'[req[p].rowSub].cancel_at_period_end
            /\ (/\ req[p].pc = "fan_write"
                /\ req'[p].pc = "done"
                /\ req'[p].status = 200)
               => /\ req[p].sub.cancel_at_period_end
                  /\ \A r \in ledger' :
                       r.id = req[p].row
                       => /\ r.cancel_at_period_end = TRUE
                          /\ r.is_active =
                               (\/ r.current_period_end = NoIso
                                \/ r.current_period_end[2] > now)]_vars

C37_Witness ==
    /\ \E p \in Procs :
         /\ req[p].pc = "done"
         /\ req[p].status = 200
         /\ req[p].body = <<"cancel-subscription", "F1", "C1", "">>
    /\ now >= 1000
    /\ stripeSubs["sub_1"].cancel_at_period_end
    /\ \E r \in ledger :
         /\ r.fan_id = "F1"
         /\ r.cancel_at_period_end
         /\ r.current_period_end = isoOfMillis(1000)
         /\ r.updated_at = isoOfMillis(now)
         /\ ~r.is_active
    /\ \E r \in ledger :
         /\ r.fan_id = "F2"
         /\ r.cancel_at_period_end
         /\ r.current_period_end = NoIso
         /\ r.is_active

(***************************************************************************)
(* C38.  resume-subscription is idempotent.  When the subscription         *)
(* retrieved is not scheduled to cancel, the call goes on to the row       *)
(* without a provider update.  The step that completes a successful call   *)
(* sets the row's status to active, is_active to TRUE and                  *)
(* current_period_end to the provider's, and leaves its other columns but  *)
(* updated_at alone; so when an earlier successful resume has left the row *)
(* so, the second call changes nothing in the row but updated_at.          *)
(***************************************************************************)
resuming(p) ==
    /\ req'[p] # req[p]
    /\ Len(req[p].body) = 4
    /\ req[p].body[1] = "resume-subscription"

\* the row is as a resume that was answered with sub leaves it
resumed(r, sub) ==
    /\ r.status = "active"
    /\ r.is_active = TRUE
    /\ r.current_period_end = isoFromUnix(sub.current_period_end)

payable(status) ==
    toLowerCase(status) \in {"requested", "pending", "approved"}

\* create-payout/index.ts 105-112: the connected account of a profile, ""
\* when it has none
stripeAccountId(profile, fallbackStripeId) ==
    IF profile.stripe_connect_account_id \notin {NULL, ""}
    THEN profile.stripe_connect_account_id
    ELSE IF profile.stripe_account_id \notin {NULL, ""}
    THEN profile.stripe_account_id
    ELSE fallbackStripeId

\* the calls that are made: <<user of the session, withdrawalId, amountCents>>
PayoutCalls ==
    {<<"C1", "w1", 0>>, <<"C1", "w2", 0>>, <<"C1", "w9", 0>>, <<"C1", "", 700>>,
     <<"C1", "", 0>>, <<"C2", "w2", 0>>, <<"", "w1", 0>>}

\* create-payout/index.ts 31-61 and 87-93: a call arrives; its session is
\* validated and its body read
PayoutCall(p) ==
    /\ req[p].pc = "idle"
    /\ \A q \in Procs : q < p => req[q].pc # "idle"
    /\ \E c \in PayoutCalls :
         LET r == [IdleReq EXCEPT !.body = <<"create-payout", c[1], c[2]>>,
                                  !.user = c[1], !.rowSub = c[2], !.row = c[3]]
         IN req' = [req EXCEPT ![p] =
                      IF c[1] = "" THEN json(r, 401)
                      ELSE IF c[2] # "" THEN [r EXCEPT !.pc = "po_load"]
                      ELSE IF c[3] <= 0 THEN json(r, 400)
                      ELSE [r EXCEPT !.pc = "po_profile"]]
    /\ UNCHANGED <<ledger, nextId, profiles, entitlements, stripeSubs, events, now,
                   lastWrite, call, observed, withdrawals, transfers>>

\* create-payout/index.ts 66-86: load the withdrawal and check it
LoadWithdrawal(p) ==
    /\ req[p].pc = "po_load"
    /\ \E ok \in BOOLEAN :
         LET withdrawalId == req[p].rowSub
         IN req' = [req EXCEPT ![p] =
                      IF ~ok THEN json([@ EXCEPT !.failed = "withdrawals select"], 500)
                      ELSE IF withdrawalId \notin DOMAIN withdrawals THEN json(@, 404)
                      ELSE LET wd == withdrawals[withdrawalId]
                           IN IF wd.profile_id # req[p].user THEN json(@, 403)
                              ELSE IF ~payable(wd.status) THEN json(@, 400)
                              ELSE IF wd.amount_cents <= 0 THEN json(@, 400)
                              ELSE [@ EXCEPT !.pc = "po_profile",
                                             !.row = wd.amount_cents]]
    /\ UNCHANGED <<ledger, nextId, profiles, entitlements, stripeSubs, events, now,
                   lastWrite, call, observed, withdrawals, transfers>>

\* create-payout/index.ts 97-116: the connected account of the caller
LoadPayoutProfile(p) ==
    /\ req[p].pc = "po_profile"
    /\ \E ok \in BOOLEAN :
         req' = [req EXCEPT ![p] =
                   IF ~ok THEN json([@ EXCEPT !.failed = "profiles select"], 500)
                   ELSE IF stripeAccountId(profiles[req[p].user], "") = ""
                   THEN json(@, 400)
                   ELSE [@ EXCEPT !.pc = "po_transfer"]]
    /\ UNCHANGED <<ledger, nextId, profiles, entitlements, stripeSubs, events, now,
                   lastWrite, call, observed, withdrawals, transfers>>

\* create-payout/index.ts 119-127 and 148: stripe.transfers.create; a
\* failure throws to the catch
CreateTransfer(p) ==
    /\ req[p].pc = "po_transfer"
    /\ \E ok \in BOOLEAN :
         IF ok
         THEN /\ transfers' = transfers \cup
                    {[id |-> Cardinality(transfers) + 1,
                      amount |-> req[p].row,
                      destination |-> stripeAccountId(profiles[req[p].user], ""),
                      withdrawal_id |-> req[p].rowSub,
                      profile_id |-> req[p].user]}
              /\ req' = [req EXCEPT ![p] =
                           IF req[p].rowSub # "" THEN [@ EXCEPT !.pc = "po_mark"]
                           ELSE json(@, 200)]
         ELSE /\ req' = [req EXCEPT ![p] =
                           json([@ EXCEPT !.failed = "transfers.create"], 500)]
              /\ UNCHANGED transfers
    /\ UNCHANGED <<ledger, nextId, profiles, entitlements, stripeSubs, events, now,
                   lastWrite, call, observed, withdrawals>>

\* create-payout/index.ts 130-148: mark the withdrawal paid, best effort
MarkPaid(p) ==
    /\ req[p].pc = "po_mark"
    /\ \E ok \in BOOLEAN :
         IF ok
         THEN /\ withdrawals' =
                    [w \in DOMAIN withdrawals |->
                       IF /\ w = req[p].rowSub
                          /\ withdrawals[w].profile_id = req[p].user
                       THEN [withdrawals[w] EXCEPT !.status = "paid"]
                       ELSE withdrawals[w]]
              /\ req' = [req EXCEPT ![p] = json(@, 200)]
         ELSE /\ req' = [req EXCEPT ![p] =
                           json([@ EXCEPT !.failed = "withdrawals update"], 200)]
              /\ UNCHANGED withdrawals
    /\ UNCHANGED <<ledger, nextId, profiles, entitlements, stripeSubs, events, now,
                   lastWrite, call, observed, transfers>>

\* the statuses a withdrawal is in when the calls start
WithdrawalStatuses == {"requested", "Pending", "approved", "paid", "rejected"}

InitPayout ==
    /\ ledger = {}
    /\ nextId = 1
    /\ profiles = InitProfiles
    /\ entitlements = {}
    /\ stripeSubs = InitStripeSubs
    /\ events = {}
    /\ now = 0
    /\ req = [p \in Procs |-> IdleReq]
    /\ lastWrite = <<>>
    /\ call = NoCall
    /\ observed = NotObserved
    /\ \E st \in WithdrawalStatuses :
         withdrawals = [InitWithdrawals EXCEPT !["w1"].status = st]
    /\ transfers = {}

NextPayout ==
    \/ \E p \in Procs : PayoutCall(p)
    \/ \E p \in Procs : LoadWithdrawal(p)
    \/ \E p \in Procs : LoadPayoutProfile(p)
    \/ \E p \in Procs : CreateTransfer(p)
    \/ \E p \in Procs : MarkPaid(p)

SpecPayout == InitPayout /\ [][NextPayout]_vars

(***************************************************************************)
(* C39.  Whatever the sequence and interleaving of create-payout requests, *)
(* at most one transfer is created for a withdrawal.  Stated for the       *)
(* states in which every request has been answered and no call has failed. *)
(***************************************************************************)
transfersOf(w) == {t \in transfers : t.withdrawal_id = w}

C39_OneTransferPerWithdrawal ==
    settled => \A w \in WithdrawalIds : Cardinality(transfersOf(w)) <= 1

====
